---- MODULE Spec2Model ----
(***************************************************************************)
(* Job engine, mailbox sync and occurrence pipeline of the ticketing       *)
(* system (apps/api/app/worker, apps/api/app/services/mailbox_sync.py).    *)
(*                                                                         *)
(* The database is the only shared state.  A worker iteration              *)
(* (run_one_job) is one transaction: the claim takes the row lock of the   *)
(* job (FOR UPDATE SKIP LOCKED) and everything the iteration writes,       *)
(* the claim included, becomes visible to the other sessions at the        *)
(* commit.  Claim(w) is the claim; Finish(w) is the handler, the mark and  *)
(* the commit (or the rollback).  Time is counted in half seconds; the     *)
(* SQL now() of a transaction is the time of its start, datetime.now() is  *)
(* the time of the call.                                                   *)
(***************************************************************************)
EXTENDS Integers, Sequences, FiniteSets, TLC

\* ---------------------------------------------------------------- bounds
NumWorkers == 2
MaxMsgs == 1
MaxNow == 10
MaxApiCalls == 1
MaxFaults == 1
MaxCallbacks == 3

\* ------------------------------------------------------ program constants
DefaultMaxAttempts == 25
CircuitBreakerAttempts == 5
MailboxSyncPauseHalfSeconds == 1800
HistoryPollHalfSeconds == 60
BackoffCapHalfSeconds == 120
BackoffExponentCap == 8

Workers == 1..NumWorkers
ProviderMsgs == 1..MaxMsgs
Org == 1
OtherOrg == 2
Orgs == {Org, OtherOrg}
Mbx == 1
NoId == 0
NoKey == <<>>
WorkerId == "host"
ApiSession == 0

Min(a, b) == IF a <= b THEN a ELSE b
Max(a, b) == IF a >= b THEN a ELSE b

RECURSIVE Pow2(_)
Pow2(n) == IF n = 0 THEN 1 ELSE 2 * Pow2(n - 1)

JobTypes == {"mailbox_backfill", "mailbox_history_sync", "occurrence_fetch_raw",
             "occurrence_parse", "occurrence_stitch", "ticket_apply_routing"}
SyncJobTypes == {"mailbox_backfill", "mailbox_history_sync"}
StageStates == {"raw_fetched", "parsed", "stitched", "routed"}

\* the environment of one handler run
Faults == {"none", "api_error", "history_expired", "token_error", "blob_error",
           "db_error"}

VARIABLES
  now,        \* the clock, in half seconds
  jobs,       \* bg_jobs, committed rows; the id of a row is its index
  mailbox,    \* the mailboxes row of the one mailbox
  occs,       \* message_occurrences, by provider message id
  blobs,      \* blobs rows of kind raw_eml, by sha256
  messages,   \* messages, committed rows; the id of a row is its index
  contents,   \* message_contents: message id -> set of content versions
  tickets,    \* tickets, committed rows; the id of a row is its index
  tmsgs,      \* ticket_messages: message id -> ticket id (unique per message)
  events,     \* ticket_events: sequence of [ticket, type, occ]
  routing,    \* recipient_allowlist and routing_rules of the organization
  tx,         \* per worker: the open transaction of run_one_job
  faults,     \* number of handler runs that met a fault so far
  apiCalls,   \* number of API requests served so far
  oauth       \* the oauth_states row of one state value, and its use

vars == <<now, jobs, mailbox, occs, blobs, messages, contents, tickets, tmsgs,
          events, routing, tx, faults, apiCalls, oauth>>

\* ------------------------------------------------------------ the tables
Job(type, mbx, key, occ, raw, runAt) ==
  [type |-> type, status |-> "queued", run_at |-> runAt, attempts |-> 0,
   max_attempts |-> DefaultMaxAttempts, org |-> Org, mailbox |-> mbx,
   dedupe_key |-> key, occ |-> occ, raw |-> raw, payload_ok |-> TRUE,
   locked_by |-> "none", last_error |-> FALSE]

NoOcc ==
  [exists |-> FALSE, history_id |-> NoId, state |-> "discovered",
   raw_blob_id |-> NoId, message_id |-> NoId, ticket_id |-> NoId,
   raw_fetch_error |-> FALSE, parse_error |-> FALSE, stitch_error |-> FALSE,
   route_error |-> FALSE, original_recipient |-> NoId,
   original_recipient_source |-> "unknown",
   original_recipient_confidence |-> "low",
   original_recipient_evidence |-> <<>>]

\* the provider: message m has history id m + 1 and raw content m; a
\* mailbox connected before the first message has history id 1.  All
\* messages have one fingerprint; messages 1 and 2 are copies of one mail
\* (one signature), message 3 differs in its signature, and every fourth
\* message is the mirror of the reply with X-OSS-Message-ID 1
ProviderHistoryId(m) == m + 1
ProviderRawPresent(m) == TRUE
ProviderHead == MaxMsgs + 1
RawSha(m) == m
Fingerprint(m) == 1
Signature(m) == (m + 1) \div 2
OssMessageId(m) == IF m % 4 = 0 THEN 1 ELSE NoId
RfcMessageId(m) == m
\* the mails from StitchFirst on carry the headers that occurrence_stitch
\* reads, in every combination: X-OSS-Ticket-ID (none, ticket 1, the id of
\* no ticket), a Reply-To token (none, the code of ticket 2, the code of no
\* ticket), In-Reply-To (none, the Message-ID of the mail StitchBase[3],
\* an unknown Message-ID) and References (none, the Message-ID of the mail
\* StitchBase[4], an unknown one followed by that one)
StitchBase == <<5, 7, 9, 11, 13>>
HeaderCombinations == 81
\* the next mirror after the mails of StitchBase
StitchFirst == 4 * ((StitchBase[Len(StitchBase)] \div 4) + 1)
\* an id past every mail, message and ticket
UnknownId == StitchFirst + 4 * HeaderCombinations
HeaderChoice(m, k, choices) ==
  IF m < StitchFirst \/ m >= UnknownId THEN choices[1]
  ELSE choices[(((m - StitchFirst) \div k) % 3) + 1]

XOssTicketId(m) == HeaderChoice(m, 4, <<NoId, 1, UnknownId>>)
ReplyToCode(m) == HeaderChoice(m, 12, <<NoId, 2, UnknownId>>)
InReplyTo(m) == HeaderChoice(m, 36, <<NoId, RfcMessageId(StitchBase[3]), UnknownId>>)
References(m) ==
  HeaderChoice(m, 108, << <<>>, <<RfcMessageId(StitchBase[4])>>,
                          <<UnknownId, RfcMessageId(StitchBase[4])>> >>)

\* the mails from RoutingFirst on carry the recipient headers in every
\* combination, two by two as copies of one mail: X-Gm-Original-To,
\* Delivered-To (two values), X-Original-To, To (two addresses), Cc (two
\* addresses), each present or absent; the mails with X-Gm-Original-To are
\* those of the second of two senders; addresses are numbers, NoId is the
\* empty string
RecipientCombinations == 32
RoutingFirst == UnknownId + 1
HeaderBit(m, k, value, absent) ==
  IF m >= RoutingFirst /\ (((m - RoutingFirst) \div 2) \div k) % 2 = 1
    THEN value ELSE absent

RecipientHeaders(m) ==
  [x_gm_original_to |-> HeaderBit(m, 1, <<1>>, <<>>),
   delivered_to |-> HeaderBit(m, 2, <<2, 1>>, <<>>),
   x_original_to |-> HeaderBit(m, 4, <<3>>, <<>>),
   to_emails |-> HeaderBit(m, 8, <<4, 5>>, <<>>),
   cc_emails |-> HeaderBit(m, 16, <<5, 4>>, <<>>)]
FromEmail(m) == HeaderBit(m, 1, 2, 1)
AgentEmail == FromEmail(RoutingFirst) + 2
\* the part of an address after the @
DomainOf(e) == IF e = NoId THEN NoId ELSE (e % 2) + 1

\* what one transaction sees and writes; seen is what the lookup of the
\* handler returned when the transaction made it before the state it now
\* writes to (READ COMMITTED: a statement sees what is committed when it
\* starts), Unread when the lookup is made now
Unread == NoId - 1

\* an organization without allowlist patterns and routing rules
NoRouting == [recipient_allowlist |-> {}, routing_rules |-> <<>>]

Db(js, mb, os) ==
  [jobs |-> js, mailbox |-> mb, occs |-> os, blobs |-> {}, messages |-> <<>>,
   contents |-> <<>>, tickets |-> <<>>, tmsgs |-> <<>>, events |-> <<>>,
   routing |-> NoRouting,
   me |-> ApiSession, blocked |-> FALSE, called |-> FALSE, seen |-> Unread]

View(w) ==
  [jobs |-> jobs, mailbox |-> mailbox, occs |-> occs, blobs |-> blobs,
   messages |-> messages, contents |-> contents, tickets |-> tickets,
   tmsgs |-> tmsgs, events |-> events, routing |-> routing, me |-> w,
   blocked |-> FALSE,
   called |-> FALSE, seen |-> Unread]

RowLockedByOther(i, me) ==
  \E w \in Workers \ {me} : tx[w].pc \in {"claimed", "selected"} /\ tx[w].job = i

RowLocked(i) == RowLockedByOther(i, ApiSession)

\* bg_jobs_dedupe_uq: the rows the partial unique index covers
Live(r) == r.dedupe_key # NoKey /\ r.status \in {"queued", "running"}

SameDedupe(r, s) ==
  r.org = s.org /\ r.type = s.type /\ r.dedupe_key = s.dedupe_key

\* seeded fault: an index that never reports a conflict
DedupeConflictsNone(js, r) == {}

DedupeConflicts(js, r) ==
  {i \in DOMAIN js : Live(js[i]) /\ SameDedupe(js[i], r)}

\* seeded fault: the insert without bg_jobs_dedupe_uq
enqueue_job_without_index(D, r) == [D EXCEPT !.jobs = Append(@, r)]

\* INSERT ... ON CONFLICT DO NOTHING: a conflicting row that an open
\* transaction of another session holds makes the insert wait for it
enqueue_job(D, r) ==
  LET c == DedupeConflicts(D.jobs, r)
  IN  IF r.dedupe_key = NoKey \/ c = {}
        THEN [D EXCEPT !.jobs = Append(@, r)]
        ELSE IF \E i \in c : RowLockedByOther(i, D.me)
               THEN [D EXCEPT !.blocked = TRUE]
               ELSE D

\* run_at is left to the insert: COALESCE(:run_at, now())
enqueue_mailbox_backfill(D, t0) ==
  enqueue_job(D, Job("mailbox_backfill", Mbx, <<"mailbox_backfill", Mbx>>,
                     NoId, FALSE, t0))

enqueue_mailbox_history_sync(D, t0) ==
  enqueue_job(D, Job("mailbox_history_sync", Mbx,
                     <<"mailbox_history_sync", Mbx>>, NoId, FALSE, t0))

\* ------------------------------------------------- services/mailbox_sync.py
\* seeded fault: the load without the enabled and paused checks
_load_mailbox_for_sync_unchecked(D, t) == TRUE

_load_mailbox_for_sync(D, t) ==
  D.mailbox.is_enabled /\ ~(D.mailbox.paused_until # NoId /\ D.mailbox.paused_until > t)

\* seeded fault: the upsert that writes the whole row on a conflict
_upsert_occurrence_replacing(D, m) ==
  [D EXCEPT !.occs[m] = [NoOcc EXCEPT !.exists = TRUE,
                                      !.history_id = ProviderHistoryId(m)]]

\* of the mirror fields thread_id, history_id, internal_date and label_ids
\* the row of the model keeps history_id; the timestamps of the row are
\* left out
_upsert_occurrence(D, m) ==
  IF D.occs[m].exists
    THEN [D EXCEPT !.occs[m].history_id = ProviderHistoryId(m)]
    ELSE [D EXCEPT !.occs[m] = [NoOcc EXCEPT !.exists = TRUE,
                                             !.history_id = ProviderHistoryId(m)]]

_enqueue_occurrence_fetch_raw(D, m, t0) ==
  enqueue_job(D, Job("occurrence_fetch_raw", Mbx, <<"occurrence_fetch_raw", m>>,
                     m, ProviderRawPresent(m), t0))

\* the body of the per-message loop, over the listed messages in order
RECURSIVE SyncMessages(_, _, _)
SyncMessages(D, ms, t0) ==
  IF ms = <<>> THEN D
  ELSE SyncMessages(_enqueue_occurrence_fetch_raw(_upsert_occurrence(D, Head(ms)),
                                                   Head(ms), t0),
                    Tail(ms), t0)

\* seeded fault: the history id of the message listed last, whatever the
\* value before
HistoryIdOfLast(h, ms) ==
  IF ms = <<>> THEN NoId ELSE ProviderHistoryId(ms[Len(ms)])

RECURSIVE HighestHistoryId(_, _)
HighestHistoryId(h, ms) ==
  IF ms = <<>> THEN h
  ELSE HighestHistoryId(IF h = NoId \/ ProviderHistoryId(Head(ms)) > h
                          THEN ProviderHistoryId(Head(ms)) ELSE h, Tail(ms))

\* the provider's messages from m on, in ascending order
RECURSIVE ListedFrom(_)
ListedFrom(m) == IF m > MaxMsgs THEN <<>> ELSE <<m>> \o ListedFrom(m + 1)

\* list_history: the messages with a history id above start
ListedAfter(start) ==
  SelectSeq(ListedFrom(1), LAMBDA m : ProviderHistoryId(m) > start)

Result(D, outcome) == [db |-> D, outcome |-> outcome]

\* f is the fault the run meets; an api_error comes after k messages
sync_mailbox_backfill(D, f, k, t0, t) ==
  IF ~_load_mailbox_for_sync(D, t) THEN Result(D, "ok")
  ELSE IF f = "token_error" THEN Result([D EXCEPT !.called = TRUE], "retryable")
  ELSE IF f = "db_error" THEN Result(D, "dberror")
  ELSE
    LET listed == ListedFrom(1)
        done   == IF f = "api_error" THEN SubSeq(listed, 1, Min(k, Len(listed)))
                  ELSE listed
        D1     == SyncMessages([D EXCEPT !.called = TRUE], done, t0)
        high   == HighestHistoryId(D.mailbox.gmail_history_id, done)
    IN  IF f = "api_error"
          THEN Result([D1 EXCEPT !.mailbox.last_sync_error = "backfill_failed"],
                      "retryable")
          ELSE Result(
                 enqueue_mailbox_history_sync(
                   [D1 EXCEPT !.mailbox.last_full_sync_at = t,
                              !.mailbox.last_sync_error = "none",
                              !.mailbox.gmail_history_id =
                                 IF high # NoId THEN high ELSE @], t0),
                 "ok")

\* seeded fault: the expired history raised like another API error
HistoryExpiredRaised(D, t0) ==
  Result([D EXCEPT !.mailbox.last_sync_error = "history_expired",
                   !.called = TRUE], "retryable")

\* except GmailHistoryExpiredError: the recovery by a backfill
HistoryExpired(D, t0) ==
  Result(enqueue_mailbox_backfill(
           [D EXCEPT !.mailbox.last_sync_error = "history_expired",
                     !.called = TRUE], t0), "ok")

sync_mailbox_history(D, f, k, t0, t) ==
  IF ~_load_mailbox_for_sync(D, t) THEN Result(D, "ok")
  ELSE IF f = "db_error" THEN Result(D, "dberror")
  ELSE IF D.mailbox.gmail_history_id = NoId
    THEN Result(enqueue_mailbox_backfill(
                  [D EXCEPT !.mailbox.last_sync_error = "no_history"], t0), "ok")
  ELSE IF f = "token_error" THEN Result([D EXCEPT !.called = TRUE], "retryable")
  ELSE IF f = "history_expired" THEN HistoryExpired(D, t0)
  ELSE
    LET start  == D.mailbox.gmail_history_id
        listed == ListedAfter(start)
        done   == IF f = "api_error" THEN SubSeq(listed, 1, Min(k, Len(listed)))
                  ELSE listed
        D1     == SyncMessages([D EXCEPT !.called = TRUE], done, t0)
        high   == HighestHistoryId(Max(start, ProviderHead), done)
    IN  IF f = "api_error"
          THEN Result([D1 EXCEPT !.mailbox.last_sync_error = "incremental_failed"],
                      "retryable")
          ELSE Result([D1 EXCEPT !.mailbox.gmail_history_id = high,
                                 !.mailbox.last_incremental_sync_at = t,
                                 !.mailbox.last_sync_error = "none"],
                      "ok")

\* worker/jobs/mailbox_backfill.py: PermanentJobError on a payload without
\* organization_id or mailbox_id (payload_ok is FALSE)
mailbox_backfill(D, job, f, k, t0, t) ==
  IF ~job.payload_ok THEN Result(D, "permanent")
  ELSE sync_mailbox_backfill(D, f, k, t0, t)

\* worker/jobs/mailbox_history_sync.py, the same for the history sync
mailbox_history_sync(D, job, f, k, t0, t) ==
  IF ~job.payload_ok THEN Result(D, "permanent")
  ELSE sync_mailbox_history(D, f, k, t0, t)

\* ------------------------------------- worker/jobs/occurrence_fetch_raw.py
\* seeded fault: a handler without its state gate
GateOpen(occ) == FALSE

FetchRawGate(occ) == occ.raw_blob_id # NoId /\ occ.state \in StageStates

occurrence_fetch_raw(D, job, f, t0) ==
  LET m == job.occ
      occ == D.occs[m]
  IN  IF ~occ.exists THEN Result(D, "ok")
      ELSE IF FetchRawGate(occ) THEN Result(D, "ok")
      ELSE IF ~job.raw
        THEN Result([D EXCEPT !.occs[m].state = "failed",
                              !.occs[m].raw_fetch_error = TRUE], "ok")
      ELSE IF f = "blob_error" THEN Result(D, "retryable")
      ELSE IF f = "db_error" THEN Result(D, "dberror")
      ELSE Result(
             enqueue_job(
               [D EXCEPT !.blobs = @ \cup {RawSha(m)},
                         !.occs[m].raw_blob_id = RawSha(m),
                         !.occs[m].raw_fetch_error = FALSE,
                         !.occs[m].state = "raw_fetched"],
               Job("occurrence_parse", Mbx, <<"occurrence_parse", m>>, m, FALSE, t0)),
             "ok")

\* ----------------------------------------- worker/jobs/occurrence_parse.py
\* message_oss_ids and message_fingerprints hold the first message inserted
\* for a key (the later inserts are ON CONFLICT DO NOTHING)
\* seeded fault: the lookup in message_oss_ids finds nothing
LookupOssMissed(ms, oss) == {}

LookupOss(ms, oss) ==
  {i \in DOMAIN ms : ms[i].oss # NoId /\ ms[i].oss = oss}

\* seeded fault: the lookup in message_fingerprints finds nothing
LookupFingerprintMissed(ms, fp, sig) == {}

LookupFingerprint(ms, fp, sig) ==
  {i \in DOMAIN ms : ms[i].fp_insert /\ ms[i].fp = fp /\ ms[i].sig = sig}

First(S) == CHOOSE i \in S : \A k \in S : i <= k

\* the two SELECTs: the message of the oss id, else the message of the
\* fingerprint and signature, else NoId
CanonicalLookup(ms, oss, fp, sig) ==
  IF oss # NoId /\ LookupOss(ms, oss) # {} THEN First(LookupOss(ms, oss))
  ELSE IF LookupFingerprint(ms, fp, sig) # {}
    THEN First(LookupFingerprint(ms, fp, sig))
  ELSE NoId

\* collision_group_id is a column of messages that no statement sets
_upsert_canonical_message(D, oss, rfc, fp, sig) ==
  LET existing == IF D.seen = Unread
                    THEN CanonicalLookup(D.messages, oss, fp, sig) ELSE D.seen
  IN  IF existing # NoId THEN [db |-> D, id |-> existing]
      ELSE [db |-> [D EXCEPT !.messages =
                               Append(@, [fp |-> fp, sig |-> sig, oss |-> oss,
                                          rfc |-> rfc, direction |-> "inbound",
                                          fp_insert |-> TRUE,
                                          collision_group_id |-> NoId]),
                             !.contents = Append(@, {}),
                             !.tmsgs = Append(@, NoId)],
            id |-> Len(D.messages) + 1]

MaxVersion(S) == IF S = {} THEN 0 ELSE CHOOSE v \in S : \A u \in S : u <= v

_insert_message_content(D, msg) ==
  LET max_v == MaxVersion(D.contents[msg])
      content_version == IF max_v = 0 THEN max_v + 1 ELSE max_v
  IN  [D EXCEPT !.contents[msg] = @ \cup {content_version}]

\* ------------------------------------------- services/ingest/recipient.py
NonBlank(es) == SelectSeq(es, LAMBDA e : e # NoId)

Resolution(selected, selected_from, source, confidence, x_gm_values, delivered_values, x_original_values, to_emails, cc_emails) ==
  [recipient |-> selected, source |-> source, confidence |-> confidence,
   evidence |-> [selected_from |-> selected_from, selected_value |-> selected,
                 x_gm_original_to_candidates |-> x_gm_values,
                 delivered_to_candidates |-> delivered_values,
                 x_original_to_candidates |-> x_original_values,
                 to_candidates |-> NonBlank(to_emails),
                 cc_candidates |-> NonBlank(cc_emails)]]

\* seeded fault: the To addresses are looked at before the headers
resolve_original_recipient_to_first(x_gm_values, delivered_values, x_original_values, to_emails, cc_emails) ==
  IF to_emails # <<>> /\ to_emails[1] # NoId
    THEN Resolution(to_emails[1], "to", "to_cc_scan", "low", x_gm_values,
                    delivered_values, x_original_values, to_emails, cc_emails)
    ELSE Resolution(NoId, "none", "unknown", "low", x_gm_values,
                    delivered_values, x_original_values, to_emails, cc_emails)

\* the candidate lists of the three headers come from _header_candidates
\* (no blank entry, no entry twice); a blank first To or Cc address selects
\* nothing
resolve_original_recipient(x_gm_values, delivered_values, x_original_values, to_emails, cc_emails) ==
  LET R(selected, selected_from, source, confidence) ==
        Resolution(selected, selected_from, source, confidence, x_gm_values,
                   delivered_values, x_original_values, to_emails, cc_emails)
  IN  IF x_gm_values # <<>>
        THEN R(x_gm_values[1], "X-Gm-Original-To", "workspace_header", "high")
      ELSE IF delivered_values # <<>>
        THEN R(delivered_values[1], "Delivered-To", "delivered_to", "medium")
      ELSE IF x_original_values # <<>>
        THEN R(x_original_values[1], "X-Original-To", "x_original_to", "medium")
      ELSE IF to_emails # <<>>
        THEN IF to_emails[1] # NoId THEN R(to_emails[1], "to", "to_cc_scan", "low")
             ELSE R(NoId, "none", "unknown", "low")
      ELSE IF cc_emails # <<>>
        THEN IF cc_emails[1] # NoId THEN R(cc_emails[1], "cc", "to_cc_scan", "low")
             ELSE R(NoId, "none", "unknown", "low")
      ELSE R(NoId, "none", "unknown", "low")

\* the statements of occurrence_parse after the blob is read: canonical
\* message, content version, recipient, the UPDATE of the occurrence and
\* the stitch job
_store_parsed(D1, m, id, recipient, t0) ==
  enqueue_job(
    [D1 EXCEPT !.occs[m].message_id = id,
               !.occs[m].parse_error = FALSE,
               !.occs[m].original_recipient = recipient.recipient,
               !.occs[m].original_recipient_source = recipient.source,
               !.occs[m].original_recipient_confidence = recipient.confidence,
               !.occs[m].original_recipient_evidence = recipient.evidence,
               !.occs[m].state = "parsed"],
    Job("occurrence_stitch", Mbx, <<"occurrence_stitch", m>>, m, FALSE, t0))

_store_message(U, m, h, t0) ==
  _store_parsed(_insert_message_content(U.db, U.id), m, U.id,
                resolve_original_recipient(h.x_gm_original_to, h.delivered_to,
                                           h.x_original_to, h.to_emails,
                                           h.cc_emails),
                t0)

_parse_and_store(D, m, h, t0) ==
  Result(_store_message(_upsert_canonical_message(D, OssMessageId(m),
                                                  RfcMessageId(m), Fingerprint(m),
                                                  Signature(m)),
                        m, h, t0),
         "ok")

ParseGate(occ) ==
  occ.message_id # NoId /\ occ.state \in {"parsed", "stitched", "routed"}

occurrence_parse(D, job, f, t0) ==
  LET m == job.occ
      occ == D.occs[m]
  IN  IF ~occ.exists THEN Result(D, "ok")
      ELSE IF ParseGate(occ) THEN Result(D, "ok")
      ELSE IF occ.raw_blob_id = NoId \/ occ.raw_blob_id \notin D.blobs
             \/ f = "blob_error"
        THEN Result([D EXCEPT !.occs[m].state = "failed",
                              !.occs[m].parse_error = TRUE], "ok")
      ELSE IF f = "db_error" THEN Result(D, "dberror")
      ELSE _parse_and_store(D, m, RecipientHeaders(m), t0)

\* ---------------------------------------- worker/jobs/occurrence_stitch.py
_fail(D, m) ==
  [D EXCEPT !.occs[m].state = "failed", !.occs[m].stitch_error = TRUE]

\* seeded fault: the UPDATE of the stitch without ticket_id
_mark_stitched_without_ticket(D, m, ticket) ==
  [D EXCEPT !.occs[m].stitch_error = FALSE, !.occs[m].state = "stitched"]

_mark_stitched(D, m, ticket) ==
  [D EXCEPT !.occs[m].ticket_id = ticket, !.occs[m].stitch_error = FALSE,
            !.occs[m].state = "stitched"]

\* seeded fault: the stitch that enqueues no routing job
_enqueue_routing_skipped(D, m, t0) == D

_enqueue_routing(D, m, t0) ==
  enqueue_job(D, Job("ticket_apply_routing", Mbx, <<"ticket_apply_routing", m>>,
                     m, FALSE, t0))

\* ON CONFLICT (organization_id, message_id) DO NOTHING
_link_message(D, ticket, msg) ==
  IF D.tmsgs[msg] # NoId THEN D ELSE [D EXCEPT !.tmsgs[msg] = ticket]

TicketIds(ts) == {ts[i].id : i \in DOMAIN ts}

_get_or_create_ticket_with_id(D, id) ==
  IF id \in TicketIds(D.tickets) THEN D
  ELSE [D EXCEPT !.tickets = Append(@, [id |-> id, status |-> "new",
                                        closed |-> FALSE,
                                        stitch_reason |-> "x_oss_ticket_id",
                                        stitch_confidence |-> "high",
                                        assignee_user_id |-> NoId,
                                        assignee_queue_id |-> NoId])]

\* seeded fault: a token is taken for a ticket without the lookup in tickets
_try_reply_to_token_unchecked(D, code) == code

\* ticket_code is unique and stands for the ticket id
_try_reply_to_token(D, code) ==
  IF code # NoId /\ code \in TicketIds(D.tickets) THEN code ELSE NoId

\* message_thread_refs of the message, in_reply_to first, then references
ThreadRefs(m) ==
  (IF InReplyTo(m) # NoId THEN <<InReplyTo(m)>> ELSE <<>>) \o References(m)

\* message_rfc_ids holds a row for each message that occurrence_parse
\* inserted; a reference that names no message, or a message without a
\* ticket_messages link, is passed over
RECURSIVE _try_threading_stitch(_, _)
_try_threading_stitch(D, refs) ==
  IF refs = <<>> THEN NoId
  ELSE LET ref_msg == {i \in DOMAIN D.messages :
                         D.messages[i].fp_insert /\ D.messages[i].rfc = Head(refs)}
       IN  IF ref_msg # {} /\ D.tmsgs[First(ref_msg)] # NoId
             THEN D.tmsgs[First(ref_msg)]
             ELSE _try_threading_stitch(D, Tail(refs))

_create_ticket(D) ==
  [D EXCEPT !.tickets = Append(@, [id |-> Len(D.tickets) + 1, status |-> "new",
                                   closed |-> FALSE,
                                   stitch_reason |-> "new_message",
                                   stitch_confidence |-> "low",
                                   assignee_user_id |-> NoId,
                                   assignee_queue_id |-> NoId])]

Stitched(D, m, ticket, msg, t0) ==
  _enqueue_routing(_mark_stitched(_link_message(D, ticket, msg), m, ticket), m, t0)

StitchGate(occ) == occ.ticket_id # NoId /\ occ.state \in {"stitched", "routed"}

occurrence_stitch(D, job, f, t0) ==
  LET m == job.occ
      occ == D.occs[m]
      msg == occ.message_id
      existing_link == IF D.seen = Unread THEN D.tmsgs[msg] ELSE D.seen
  IN  IF ~occ.exists THEN Result(D, "ok")
      ELSE IF StitchGate(occ) THEN Result(D, "ok")
      ELSE IF msg = NoId THEN Result(_fail(D, m), "ok")
      ELSE IF f = "db_error" THEN Result(D, "dberror")
      ELSE IF existing_link # NoId
        THEN Result(_enqueue_routing(_mark_stitched(D, m, existing_link), m, t0), "ok")
      ELSE IF D.contents[msg] = {} THEN Result(_fail(D, m), "ok")
      ELSE IF XOssTicketId(m) # NoId
        THEN Result(Stitched(_get_or_create_ticket_with_id(D, XOssTicketId(m)),
                             m, XOssTicketId(m), msg, t0), "ok")
      ELSE IF _try_reply_to_token(D, ReplyToCode(m)) # NoId
        THEN Result(Stitched(D, m, _try_reply_to_token(D, ReplyToCode(m)), msg, t0),
                    "ok")
      ELSE IF _try_threading_stitch(D, ThreadRefs(m)) # NoId
        THEN Result(Stitched(D, m, _try_threading_stitch(D, ThreadRefs(m)), msg, t0),
                    "ok")
      ELSE Result(Stitched(_create_ticket(D), m, Len(D.tickets) + 1, msg, t0), "ok")

\* ------------------------------------- worker/jobs/ticket_apply_routing.py
_mark_routed(D, m) ==
  [D EXCEPT !.occs[m].route_error = FALSE, !.occs[m].state = "routed"]

SetTicket(ts, id, status, closed) ==
  [i \in DOMAIN ts |-> IF ts[i].id = id
                         THEN [ts[i] EXCEPT !.status = status, !.closed = closed]
                         ELSE ts[i]]

_mark_spam(D, ticket, m) ==
  [D EXCEPT !.tickets = SetTicket(@, ticket, "spam", TRUE),
            !.events = Append(@, [ticket |-> ticket, type |-> "auto_spam",
                                  occ |-> m])]

\* fnmatch: a pattern is the set of the strings it matches, the empty
\* pattern the empty set
_is_allowlisted(D, recipient) ==
  /\ recipient # NoId
  /\ \E r \in D.routing.recipient_allowlist :
       r.is_enabled /\ r.pattern # {} /\ recipient \in r.pattern

\* from_email and direction of the content parsed last among the messages
\* of the ticket (the message inserted last); the contents of a message
\* are those of the mail that inserted it
MsgFrom(D, ticket) ==
  LET linked == {i \in DOMAIN D.messages :
                   D.tmsgs[i] = ticket /\ D.contents[i] # {}}
      last == CHOOSE i \in linked : \A k \in linked : k <= i
  IN  IF linked = {} THEN [from_email |-> NoId, direction |-> "none"]
      ELSE [from_email |-> IF D.messages[last].direction = "outbound"
                             THEN AgentEmail ELSE FromEmail(D.messages[last].rfc),
            direction |-> D.messages[last].direction]

_rule_matches(rule, recipient, sender_domain, sender_email, direction) ==
  /\ rule.match_recipient_pattern # {} => recipient \in rule.match_recipient_pattern
  /\ rule.match_sender_domain_pattern # {}
       => sender_domain \in rule.match_sender_domain_pattern
  /\ rule.match_sender_email_pattern # {}
       => sender_email \in rule.match_sender_email_pattern
  /\ ~(rule.match_direction # "none" /\ direction # "none"
         /\ rule.match_direction # direction)

\* seeded fault: action_set_status is written after action_auto_close
_apply_rule_actions_status_last(D, ticket, rule, m) ==
  LET assigned(t) ==
        IF rule.action_assign_user_id # NoId
          THEN [t EXCEPT !.assignee_user_id = rule.action_assign_user_id,
                         !.assignee_queue_id = NoId]
        ELSE IF rule.action_assign_queue_id # NoId
          THEN [t EXCEPT !.assignee_queue_id = rule.action_assign_queue_id,
                         !.assignee_user_id = NoId]
        ELSE t
      status_set(t) ==
        IF rule.action_set_status # "none"
          THEN [t EXCEPT !.status = rule.action_set_status,
                         !.closed = @ \/ rule.action_auto_close]
        ELSE IF rule.action_auto_close
          THEN [t EXCEPT !.status = "closed", !.closed = TRUE]
        ELSE t
  IN  IF ticket \notin TicketIds(D.tickets) THEN D
      ELSE [D EXCEPT !.tickets = [i \in DOMAIN @ |->
                                    IF @[i].id = ticket
                                      THEN status_set(assigned(@[i])) ELSE @[i]],
                     !.events = Append(@, [ticket |-> ticket,
                                           type |-> "routing_applied",
                                           occ |-> m, rule |-> rule.id])]

\* action_drop is read from the rule and not used
_apply_rule_actions(D, ticket, rule, m) ==
  LET assigned(t) ==
        IF rule.action_assign_user_id # NoId
          THEN [t EXCEPT !.assignee_user_id = rule.action_assign_user_id,
                         !.assignee_queue_id = NoId]
        ELSE IF rule.action_assign_queue_id # NoId
          THEN [t EXCEPT !.assignee_queue_id = rule.action_assign_queue_id,
                         !.assignee_user_id = NoId]
        ELSE t
      status_set(t) ==
        IF rule.action_auto_close THEN [t EXCEPT !.status = "closed", !.closed = TRUE]
        ELSE IF rule.action_set_status # "none"
          THEN [t EXCEPT !.status = rule.action_set_status]
        ELSE t
  IN  IF ticket \notin TicketIds(D.tickets) THEN D
      ELSE [D EXCEPT !.tickets = [i \in DOMAIN @ |->
                                    IF @[i].id = ticket
                                      THEN status_set(assigned(@[i])) ELSE @[i]],
                     !.events = Append(@, [ticket |-> ticket,
                                           type |-> "routing_applied",
                                           occ |-> m, rule |-> rule.id])]

\* seeded fault: the rules are taken as they come, not by priority
RulesUnordered(rs) == SelectSeq(rs, LAMBDA r : r.is_enabled)

\* WHERE is_enabled ORDER BY priority ASC, id ASC
RECURSIVE RulesInOrder(_)
RulesInOrder(rs) ==
  LET on == {i \in DOMAIN rs : rs[i].is_enabled}
      first == CHOOSE i \in on : \A k \in on :
                 \/ rs[i].priority < rs[k].priority
                 \/ rs[i].priority = rs[k].priority /\ rs[i].id <= rs[k].id
  IN  IF on = {} THEN <<>>
      ELSE <<rs[first]>> \o RulesInOrder([rs EXCEPT ![first].is_enabled = FALSE])

_apply_first_matching_rule(D, ticket, recipient, m) ==
  LET msg_from == MsgFrom(D, ticket)
      rules == RulesInOrder(D.routing.routing_rules)
      hit == {i \in DOMAIN rules :
                _rule_matches(rules[i], recipient, DomainOf(msg_from.from_email),
                              msg_from.from_email, msg_from.direction)}
  IN  IF hit = {} THEN D ELSE _apply_rule_actions(D, ticket, rules[First(hit)], m)

RoutingGate(occ) == occ.state = "routed"

ticket_apply_routing(D, job, f, t0) ==
  LET m == job.occ
      occ == D.occs[m]
  IN  IF ~occ.exists THEN Result(D, "ok")
      ELSE IF RoutingGate(occ) THEN Result(D, "ok")
      ELSE IF occ.ticket_id = NoId
        THEN Result([D EXCEPT !.occs[m].state = "failed",
                              !.occs[m].route_error = TRUE], "ok")
      ELSE IF f = "db_error" THEN Result(D, "dberror")
      ELSE IF ~_is_allowlisted(D, occ.original_recipient)
        THEN Result(_mark_routed(_mark_spam(D, occ.ticket_id, m), m), "ok")
      ELSE Result(_mark_routed(_apply_first_matching_rule(
                                 D, occ.ticket_id, occ.original_recipient, m), m),
                  "ok")

\* ------------------------------------------- services/ticket_outbound.py
\* the reply of an agent on a ticket, with the uuid4 oss: the outbound
\* message with its message_oss_ids row (no message_fingerprints row; its
\* hashes are taken over other JSON forms than those of a parsed mail), its
\* content, its link to the ticket and the outbound_send job
queue_ticket_reply(D, ticket, oss, t0) ==
  LET msg == Len(D.messages) + 1
  IN  enqueue_job(
        [D EXCEPT !.messages = Append(@, [fp |-> NoId - ticket, sig |-> NoId - oss,
                                          oss |-> oss, rfc |-> NoId - oss,
                                          direction |-> "outbound",
                                          fp_insert |-> FALSE,
                                          collision_group_id |-> NoId]),
                  !.contents = Append(@, {1}),
                  !.tmsgs = Append(@, ticket),
                  !.events = Append(@, [ticket |-> ticket, type |-> "outbound_queued",
                                        occ |-> NoId])],
        Job("outbound_send", Mbx, <<"outbound_send", msg>>, NoId, FALSE, t0))

\* ------------------------------------------------ worker/jobs/outbound_send.py
\* the handler of outbound_send jobs: a missing or inbound message is a
\* permanent error, an outbound_sent event of the ticket for the message is
\* kept, and otherwise one is written
outbound_send(D, job) ==
  LET msg == job.dedupe_key[2]
      ticket == D.tmsgs[msg]
  IN  IF msg \notin DOMAIN D.messages THEN Result(D, "permanent")
      ELSE IF D.messages[msg].direction # "outbound" THEN Result(D, "permanent")
      ELSE IF \E e \in DOMAIN D.events : /\ D.events[e].type = "outbound_sent"
                                         /\ D.events[e].ticket = ticket
                                         /\ D.events[e].occ = NoId - msg
        THEN Result(D, "ok")
      ELSE Result([D EXCEPT !.events = Append(@, [ticket |-> ticket,
                                                  type |-> "outbound_sent",
                                                  occ |-> NoId - msg])], "ok")

\* ------------------------------------------------------ worker/handlers.py
\* no branch for outbound_send: NotImplementedError
handle_job(D, job, f, k, t0, t) ==
  CASE job.type = "mailbox_backfill"     -> mailbox_backfill(D, job, f, k, t0, t)
    [] job.type = "mailbox_history_sync" -> mailbox_history_sync(D, job, f, k, t0, t)
    [] job.type = "occurrence_fetch_raw" -> occurrence_fetch_raw(D, job, f, t0)
    [] job.type = "occurrence_parse"     -> occurrence_parse(D, job, f, t0)
    [] job.type = "occurrence_stitch"    -> occurrence_stitch(D, job, f, t0)
    [] job.type = "ticket_apply_routing" -> ticket_apply_routing(D, job, f, t0)
    [] OTHER                             -> Result(D, "retryable")

\* -------------------------------------------------------- worker/runner.py
\* seeded fault: the claim without SKIP LOCKED
ClaimableIgnoringLocks(i) == jobs[i].status = "queued" /\ jobs[i].run_at <= now

Claimable(i) == jobs[i].status = "queued" /\ jobs[i].run_at <= now /\ ~RowLocked(i)

\* ORDER BY run_at ASC ... FOR UPDATE SKIP LOCKED LIMIT 1
NextJobs == {i \in DOMAIN jobs : Claimable(i) /\
               \A k \in DOMAIN jobs : Claimable(k) => jobs[i].run_at <= jobs[k].run_at}

_claim_next_job(row) == [row EXCEPT !.status = "running", !.locked_by = WorkerId]

\* seeded fault: the mark that is never written
_mark_succeeded_skipped(D, j) == D

_mark_succeeded(D, j) == [D EXCEPT !.jobs[j].status = "succeeded"]

\* seeded fault: the backoff without its cap
BackoffUncapped(attempts) == Pow2(attempts)

BackoffHalfSeconds(attempts) ==
  Min(BackoffCapHalfSeconds, Pow2(Min(attempts, BackoffExponentCap)))

\* seeded fault: the circuit breaker that does not pause
_pause_mailbox_ingestion_skipped(D, t) == D

\* pause_until is datetime.now(UTC) + the pause
_pause_mailbox_ingestion(D, t) ==
  [D EXCEPT !.mailbox.paused_until = t + Max(2, MailboxSyncPauseHalfSeconds),
            !.mailbox.pause_reason = "circuit",
            !.mailbox.last_sync_error = "job_error"]

\* seeded fault: the circuit breaker that pauses the mailbox and leaves the
\* job to its backoff
_mark_failed_requeued(D, j, permanent, t0, t) ==
  LET row == D.jobs[j]
      attempts == row.attempts + 1
  IN  IF ~permanent /\ row.mailbox # NoId /\ row.type \in SyncJobTypes
         /\ attempts >= Max(1, CircuitBreakerAttempts)
        THEN [_pause_mailbox_ingestion(D, t) EXCEPT
                !.jobs[j].status = "queued", !.jobs[j].attempts = attempts,
                !.jobs[j].last_error = TRUE,
                !.jobs[j].run_at = t0 + BackoffHalfSeconds(attempts)]
      ELSE IF permanent \/ attempts >= row.max_attempts
        THEN [D EXCEPT !.jobs[j].status = "failed", !.jobs[j].attempts = attempts,
                       !.jobs[j].last_error = TRUE]
      ELSE [D EXCEPT !.jobs[j].status = "queued", !.jobs[j].attempts = attempts,
                     !.jobs[j].last_error = TRUE,
                     !.jobs[j].run_at = t0 + BackoffHalfSeconds(attempts)]

\* run_at is now() + backoff, the now() of the transaction
_mark_failed(D, j, permanent, t0, t) ==
  LET row == D.jobs[j]
      attempts == row.attempts + 1
  IN  IF ~permanent /\ row.mailbox # NoId /\ row.type \in SyncJobTypes
         /\ attempts >= Max(1, CircuitBreakerAttempts)
        THEN [_pause_mailbox_ingestion(D, t) EXCEPT
                !.jobs[j].status = "failed", !.jobs[j].attempts = attempts,
                !.jobs[j].last_error = TRUE]
      ELSE IF permanent \/ attempts >= row.max_attempts
        THEN [D EXCEPT !.jobs[j].status = "failed", !.jobs[j].attempts = attempts,
                       !.jobs[j].last_error = TRUE]
      ELSE [D EXCEPT !.jobs[j].status = "queued", !.jobs[j].attempts = attempts,
                     !.jobs[j].last_error = TRUE,
                     !.jobs[j].run_at = t0 + BackoffHalfSeconds(attempts)]

\* seeded fault: no follow-up
_schedule_no_follow_up(D, job, t) == D

_schedule_follow_up_jobs(D, job, t) ==
  IF job.type # "mailbox_history_sync" THEN D
  ELSE IF job.org = NoId \/ job.mailbox = NoId THEN D
  ELSE enqueue_job(D, Job("mailbox_history_sync", job.mailbox,
                          <<"mailbox_history_sync", job.mailbox>>, NoId, FALSE,
                          t + Max(2, HistoryPollHalfSeconds)))

\* the transaction of run_one_job from the claim of job j on: claim,
\* handler, mark, follow-up.  A database error in the handler leaves the
\* transaction aborted: _mark_failed raises on its first statement and
\* nothing of the transaction is kept.
_mark_outcome(D, D0, H, j, t0, t) ==
  CASE H.outcome = "ok" ->
         Result(_schedule_follow_up_jobs(_mark_succeeded(H.db, j), D0.jobs[j], t),
                "ok")
    [] H.outcome = "permanent" ->
         Result(_mark_failed(H.db, j, TRUE, t0, t), "permanent")
    [] H.outcome = "retryable" ->
         Result(_mark_failed(H.db, j, FALSE, t0, t), "retryable")
    [] OTHER -> Result(D, "dberror")

_handle_claimed(D, D0, j, f, k, t0, t) ==
  _mark_outcome(D, D0, handle_job(D0, D0.jobs[j], f, k, t0, t), j, t0, t)

run_one_job(D, j, f, k, t0, t) ==
  _handle_claimed(D, [D EXCEPT !.jobs[j] = _claim_next_job(D.jobs[j])], j, f, k,
                  t0, t)

Commit(D) ==
  /\ jobs' = D.jobs
  /\ mailbox' = D.mailbox
  /\ occs' = D.occs
  /\ blobs' = D.blobs
  /\ messages' = D.messages
  /\ contents' = D.contents
  /\ tickets' = D.tickets
  /\ tmsgs' = D.tmsgs
  /\ events' = D.events
  /\ routing' = D.routing

db == <<jobs, mailbox, occs, blobs, messages, contents, tickets, tmsgs, events,
       routing>>

Idle == [pc |-> "idle", job |-> NoId, start |-> NoId]

Claim(w) ==
  /\ tx[w].pc = "idle"
  /\ \E i \in NextJobs :
       tx' = [tx EXCEPT ![w] = [pc |-> "claimed", job |-> i, start |-> now]]
  /\ UNCHANGED <<oauth, now, db, faults, apiCalls>>

\* the rest of the iteration, at its commit; after a database error the
\* exception leaves run_worker_forever and the worker process ends
FinishWith(w, R, R0) ==
  /\ R # R0 => faults < MaxFaults
  /\ faults' = IF R # R0 THEN faults + 1 ELSE faults
  /\ IF R.outcome = "dberror"
       THEN /\ UNCHANGED db
            /\ tx' = [tx EXCEPT ![w] = [Idle EXCEPT !.pc = "crashed"]]
       ELSE /\ ~R.db.blocked
            /\ Commit(R.db)
            /\ tx' = [tx EXCEPT ![w] = Idle]

Finish(w) ==
  /\ tx[w].pc = "claimed"
  /\ \E f \in Faults, k \in 0..MaxMsgs :
       FinishWith(w, run_one_job(View(w), tx[w].job, f, k, tx[w].start, now),
                  run_one_job(View(w), tx[w].job, "none", 0, tx[w].start, now))
  /\ UNCHANGED <<oauth, now, apiCalls>>

\* the process supervisor starts the worker again
Restart(w) ==
  /\ tx[w].pc = "crashed"
  /\ tx' = [tx EXCEPT ![w] = Idle]
  /\ UNCHANGED <<oauth, now, db, faults, apiCalls>>

\* ------------------------------------------------------------ API requests
\* POST /mailboxes/{id}/sync/backfill
ApiSyncBackfill ==
  /\ apiCalls < MaxApiCalls
  /\ LET D == enqueue_mailbox_backfill(View(ApiSession), now)
     IN  ~D.blocked /\ Commit(D)
  /\ apiCalls' = apiCalls + 1
  /\ UNCHANGED <<oauth, now, tx, faults>>

\* POST /mailboxes/{id}/sync/history
ApiSyncHistory ==
  /\ apiCalls < MaxApiCalls
  /\ LET D == enqueue_mailbox_history_sync(View(ApiSession), now)
     IN  ~D.blocked /\ Commit(D)
  /\ apiCalls' = apiCalls + 1
  /\ UNCHANGED <<oauth, now, tx, faults>>

\* services/mailbox_sync.py resume_mailbox_ingestion: the pause is taken
\* off the mailbox and a history sync is enqueued under the dedupe key of
\* the mailbox
resume_mailbox_ingestion(D, t0) ==
  enqueue_mailbox_history_sync(
    [D EXCEPT !.mailbox.paused_until = NoId, !.mailbox.pause_reason = "none"],
    t0)

\* POST /mailboxes/{id}/sync/resume
mailbox_sync_resume ==
  /\ apiCalls < MaxApiCalls
  /\ LET D == resume_mailbox_ingestion(View(ApiSession), now)
     IN  ~D.blocked /\ Commit(D)
  /\ apiCalls' = apiCalls + 1
  /\ UNCHANGED <<oauth, now, tx, faults>>

\* routers/ops.py, POST /ops/jobs/{job_id}/replay by an admin of tenant
\* org.  Without a row of the SELECT the request ends with 404 and nothing
\* is written.
\* The UPDATE violates bg_jobs_dedupe_uq when a live job has the key, and
\* the request fails without a change.
ReplayedRow(row, t) ==
  [row EXCEPT !.status = "queued", !.run_at = t, !.locked_by = "none",
              !.last_error = FALSE]

\* seeded fault: the SELECT without organization_id and status
DlqRowAny(org, j) == j \in DOMAIN jobs

DlqRow(org, j) ==
  j \in DOMAIN jobs /\ jobs[j].org = org /\ jobs[j].status = "failed"

\* seeded fault: the replay that starts the count of attempts again
dlq_replay_resetting(j) == [ReplayedRow(jobs[j], now) EXCEPT !.attempts = 0]

dlq_replay(j) == ReplayedRow(jobs[j], now)

dlq_job_replay(org, j) ==
  /\ apiCalls < MaxApiCalls
  /\ IF DlqRow(org, j)
       THEN /\ \A i \in DedupeConflicts(jobs, dlq_replay(j)) : ~RowLocked(i)
            /\ jobs' = IF DedupeConflicts(jobs, dlq_replay(j)) = {}
                         THEN [jobs EXCEPT ![j] = dlq_replay(j)] ELSE jobs
       ELSE jobs' = jobs
  /\ apiCalls' = apiCalls + 1
  /\ UNCHANGED <<oauth, now, mailbox, occs, blobs, messages, contents, tickets, tmsgs,
                 events, routing, tx, faults>>

\* ---------------------------------------------------- services/mailboxes.py
\* one state value of the Gmail connection: row is its oauth_states row, as
\* committed; exchanges counts the calls of exchange_code_for_tokens made
\* for it, callbacks the callback requests served
OAuthStateHalfSeconds == 1200

NoOAuthState ==
  [row |-> [issued |-> FALSE, org |-> NoId, used_at |-> NoId,
            expires_at |-> NoId],
   exchanges |-> 0, callbacks |-> 0]

TokenOutcomes == {"ok", "exchange_failed", "no_refresh_token"}

\* POST /mailboxes/gmail/journal/oauth/start
start_gmail_journal_oauth(org) ==
  /\ ~oauth.row.issued
  /\ oauth' = [oauth EXCEPT !.row = [issued |-> TRUE, org |-> org,
                                     used_at |-> NoId,
                                     expires_at |-> now + OAuthStateHalfSeconds]]
  /\ UNCHANGED <<now, db, tx, faults, apiCalls>>

\* the checks of the callback on the row of the state it names
OAuthStateAccepted(row, org, t) ==
  /\ row.issued
  /\ row.used_at = NoId
  /\ row.expires_at > t
  /\ row.org = org

\* the mailbox of the profile is there: it is connected again
ConnectedMailbox(mb) ==
  [mb EXCEPT !.is_enabled = TRUE, !.gmail_history_id = ProviderHead,
             !.last_sync_error = "none"]

\* seeded fault: a session that commits what was flushed when the request
\* ends with an exception
SessionEndCommits(row, flushed, outcome) == flushed

\* get_session closes the session of a request that raised: what was
\* flushed and not committed is rolled back
SessionEnd(row, flushed, outcome) == IF outcome = "ok" THEN flushed ELSE row

\* GET /mailboxes/gmail/oauth/callback?state=&code= by an admin of tenant
\* org: the state is marked used and flushed, then the code is exchanged;
\* session.commit() is reached when nothing was raised
gmail_oauth_callback(org, known, outcome) ==
  /\ oauth.callbacks < MaxCallbacks
  /\ IF known /\ OAuthStateAccepted(oauth.row, org, now)
       THEN /\ oauth' = [oauth EXCEPT
                           !.row = SessionEnd(oauth.row,
                                              [oauth.row EXCEPT !.used_at = now],
                                              outcome),
                           !.exchanges = @ + 1, !.callbacks = @ + 1]
            /\ mailbox' = IF outcome = "ok" THEN ConnectedMailbox(mailbox)
                          ELSE mailbox
       ELSE /\ oauth' = [oauth EXCEPT !.callbacks = @ + 1]
            /\ mailbox' = mailbox
  /\ UNCHANGED <<now, jobs, occs, blobs, messages, contents, tickets, tmsgs,
                 events, routing, tx, faults, apiCalls>>

\* ------------------------------------------------------------------- time
TickTargets ==
  {jobs[i].run_at : i \in {k \in DOMAIN jobs : jobs[k].status = "queued"}}
    \cup {mailbox.paused_until}

TickTo(cap) ==
  /\ \E t \in TickTargets : t > now /\ t <= cap /\ now' = t
  /\ UNCHANGED <<oauth, db, tx, faults, apiCalls>>

Tick == TickTo(MaxNow)

\* ---------------------------------------------------------- initial states
FreshMailbox(en, h) ==
  [is_enabled |-> en, paused_until |-> NoId, pause_reason |-> "none",
   gmail_history_id |-> h, last_full_sync_at |-> NoId,
   last_incremental_sync_at |-> NoId, last_sync_error |-> "none"]

NoOccs == [m \in ProviderMsgs |-> NoOcc]

HistoryJob(runAt) ==
  Job("mailbox_history_sync", Mbx, <<"mailbox_history_sync", Mbx>>, NoId, FALSE,
      runAt)

\* a mailbox as the OAuth completion leaves it, with or without the
\* history id of the profile
SeedFresh == {Db(<<>>, FreshMailbox(TRUE, h), NoOccs) : h \in {NoId, 1}}

\* the same mailbox, disabled in the database
SeedDisabled == {Db(<<>>, FreshMailbox(FALSE, 1), NoOccs)}

\* a history sync that has failed four times on token errors
SeedHistoryRetried ==
  {Db(<< [HistoryJob(1) EXCEPT !.attempts = CircuitBreakerAttempts - 1,
                               !.last_error = TRUE, !.locked_by = WorkerId] >>,
      FreshMailbox(TRUE, 1), NoOccs)}

\* the mailbox after the circuit breaker: its pause has run out
TrippedMailbox ==
  [FreshMailbox(TRUE, ProviderHead) EXCEPT
     !.last_full_sync_at = 1, !.paused_until = 1,
     !.pause_reason = "circuit", !.last_sync_error = "job_error"]

TrippedHistoryJob ==
  [HistoryJob(1) EXCEPT !.status = "failed", !.attempts = CircuitBreakerAttempts,
                        !.last_error = TRUE, !.locked_by = WorkerId]

\* after a backfill: message 1 discovered and its fetch_raw job retried on
\* blob-store failures; the poll chain was ended by the circuit breaker
SeedFetchRetried ==
  {Db(<< [Job("mailbox_backfill", Mbx, <<"mailbox_backfill", Mbx>>, NoId,
              FALSE, 1)
          EXCEPT !.status = "succeeded", !.locked_by = WorkerId],
         [Job("occurrence_fetch_raw", Mbx, <<"occurrence_fetch_raw", 1>>, 1,
              TRUE, 1)
          EXCEPT !.attempts = a, !.last_error = TRUE, !.locked_by = WorkerId],
         TrippedHistoryJob >>,
      TrippedMailbox,
      [m \in ProviderMsgs |->
         IF m = 1 THEN [NoOcc EXCEPT !.exists = TRUE,
                                     !.history_id = ProviderHistoryId(1)]
         ELSE NoOcc]) :
     a \in {BackoffExponentCap - 2, DefaultMaxAttempts - 1}}

\* the failed history sync of the circuit breaker beside the history sync
\* that was requested after the pause
SeedRequestedAgain == {Db(<<TrippedHistoryJob, HistoryJob(1)>>, TrippedMailbox, NoOccs)}

\* a backfill job written by hand without mailbox_id in its payload: it
\* has failed and been replayed four times
SeedMalformed ==
  {Db(<< [Job("mailbox_backfill", Mbx, <<"mailbox_backfill", Mbx>>, NoId,
              FALSE, 1)
          EXCEPT !.status = "failed", !.attempts = CircuitBreakerAttempts - 1,
                 !.payload_ok = FALSE, !.last_error = TRUE,
                 !.locked_by = WorkerId] >>,
      FreshMailbox(TRUE, 1), NoOccs)}

\* a backfill of message 1 that ran without a fault up to a stage of the
\* pipeline (the history sync after it found nothing new and scheduled its
\* next poll), and the jobs of the stages already passed delivered again;
\* Ran takes and gives a set of databases
Ran(Ds, type) ==
  {run_one_job(D, CHOOSE i \in DOMAIN D.jobs :
                     D.jobs[i].type = type /\ D.jobs[i].status = "queued",
               "none", 0, 1, 1).db : D \in Ds}

Backfilled ==
  Ran(Ran({enqueue_mailbox_backfill(Db(<<>>, FreshMailbox(TRUE, NoId), NoOccs), 1)},
          "mailbox_backfill"), "mailbox_history_sync")

RawFetched == Ran(Backfilled, "occurrence_fetch_raw")
Parsed == Ran(RawFetched, "occurrence_parse")
StitchedSeed == Ran(Parsed, "occurrence_stitch")
Routed == Ran(StitchedSeed, "ticket_apply_routing")

OccurrenceJob(type, m) == Job(type, Mbx, <<type, m>>, m, type = "occurrence_fetch_raw", 1)

RECURSIVE Redelivered(_, _)
Redelivered(Ds, types) ==
  IF types = <<>> THEN Ds
  ELSE Redelivered({enqueue_job(D, OccurrenceJob(Head(types), 1)) : D \in Ds},
                   Tail(types))

SeedRedelivered ==
  Redelivered(RawFetched, <<"occurrence_fetch_raw">>)
    \cup Redelivered(Parsed, <<"occurrence_fetch_raw", "occurrence_parse">>)
    \cup Redelivered(StitchedSeed, <<"occurrence_fetch_raw", "occurrence_parse",
                                     "occurrence_stitch">>)
    \cup Redelivered(Routed, <<"occurrence_fetch_raw", "occurrence_parse",
                               "occurrence_stitch", "ticket_apply_routing">>)

Seeds ==
  SeedFresh \cup SeedDisabled \cup SeedHistoryRetried \cup SeedFetchRetried
    \cup SeedRequestedAgain \cup SeedMalformed \cup SeedRedelivered

Init ==
  /\ now = 2
  /\ tx = [w \in Workers |-> Idle]
  /\ faults = 0
  /\ apiCalls = 0
  /\ oauth = NoOAuthState
  /\ \E S \in Seeds :
       /\ jobs = S.jobs
       /\ mailbox = S.mailbox
       /\ occs = S.occs
       /\ blobs = S.blobs
       /\ messages = S.messages
       /\ contents = S.contents
       /\ tickets = S.tickets
       /\ tmsgs = S.tmsgs
       /\ events = S.events
       /\ routing = S.routing

Next ==
  \/ \E w \in Workers : Claim(w)
  \/ \E w \in Workers : Finish(w)
  \/ \E w \in Workers : Restart(w)
  \/ ApiSyncBackfill
  \/ ApiSyncHistory
  \/ \E org \in Orgs, j \in DOMAIN jobs : dlq_job_replay(org, j)
  \/ Tick

Spec == Init /\ [][Next]_vars

\* --------------------------------------------------- the retried backfill
\* The third specification starts from a backfill that has failed once or
\* four times on API errors of the message listing, and lets the workers
\* run.
SeedBackfillRetried ==
  {Db(<< [Job("mailbox_backfill", Mbx, <<"mailbox_backfill", Mbx>>, NoId,
              FALSE, 1)
          EXCEPT !.attempts = a, !.last_error = TRUE, !.locked_by = WorkerId] >>,
      [FreshMailbox(TRUE, 1) EXCEPT !.last_sync_error = "backfill_failed"],
      NoOccs) :
     a \in {1, CircuitBreakerAttempts - 1}}

InitBackfillRetried ==
  /\ now = 2
  /\ tx = [w \in Workers |-> Idle]
  /\ faults = 0
  /\ apiCalls = 0
  /\ oauth = NoOAuthState
  /\ \E S \in SeedBackfillRetried :
       /\ jobs = S.jobs
       /\ mailbox = S.mailbox
       /\ occs = S.occs
       /\ blobs = S.blobs
       /\ messages = S.messages
       /\ contents = S.contents
       /\ tickets = S.tickets
       /\ tmsgs = S.tmsgs
       /\ events = S.events
       /\ routing = S.routing

\* the workers alone, without requests of the API
NextBackfillRetried ==
  \/ \E w \in Workers : Claim(w)
  \/ \E w \in Workers : Finish(w)
  \/ \E w \in Workers : Restart(w)
  \/ Tick

SpecBackfillRetried == InitBackfillRetried /\ [][NextBackfillRetried]_vars

\* ------------------------------------------- the canonical message layer
\* The second specification takes the transactions of occurrence_parse and
\* occurrence_stitch statement by statement: Select(w) is the lookup of the
\* handler (the canonical message of the mail, the ticket_messages link of
\* the message), Write(w) is everything after it, at the commit.  Between
\* the two, other transactions commit.
DedupeMsgs == 3

LookupTypes == {"occurrence_parse", "occurrence_stitch"}

LookupOf(D, job) ==
  LET m == job.occ
  IN  IF job.type = "occurrence_parse"
        THEN CanonicalLookup(D.messages, OssMessageId(m), Fingerprint(m),
                             Signature(m))
      ELSE IF D.occs[m].message_id = NoId THEN NoId
      ELSE D.tmsgs[D.occs[m].message_id]

Select(w) ==
  /\ tx[w].pc = "claimed"
  /\ jobs[tx[w].job].type \in LookupTypes
  /\ tx' = [tx EXCEPT ![w] = [pc |-> "selected", job |-> tx[w].job,
                               start |-> tx[w].start,
                               seen |-> LookupOf(View(w), jobs[tx[w].job])]]
  /\ UNCHANGED <<oauth, now, db, faults, apiCalls>>

Write(w) ==
  /\ \/ tx[w].pc = "selected"
     \/ tx[w].pc = "claimed" /\ jobs[tx[w].job].type \notin LookupTypes
  /\ LET seen == IF tx[w].pc = "selected" THEN tx[w].seen ELSE Unread
         R == run_one_job([View(w) EXCEPT !.seen = seen], tx[w].job, "none", 0,
                          tx[w].start, now)
     IN  ~R.db.blocked /\ Commit(R.db)
  /\ tx' = [tx EXCEPT ![w] = Idle]
  /\ UNCHANGED <<oauth, now, faults, apiCalls>>

\* the occurrences of the messages ms, discovered and fetched
RECURSIVE Fetched(_, _)
Fetched(Ds, n) ==
  IF n = 0 THEN Ds ELSE Fetched(Ran(Ds, "occurrence_fetch_raw"), n - 1)

Discovered(D, ms) == Fetched({SyncMessages(D, ms, 1)}, Len(ms))

\* the copies 1 and 2 of one mail and the mails after them up to DedupeMsgs
SeedCopies ==
  Discovered(Db(<<>>, FreshMailbox(TRUE, 1), [m \in 1..DedupeMsgs |-> NoOcc]),
             [m \in 1..DedupeMsgs |-> m])

\* the first mirror among the provider's messages
MirrorMsg == CHOOSE m \in 1..(DedupeMsgs + 1) : OssMessageId(m) # NoId

\* mail 1 went through the pipeline and has its ticket, an agent replied on
\* the ticket, and the provider shows the mirror of the reply and, before
\* it, a copy of the reply that lost the header on its way
SeedMirror ==
  LET D0 == Db(<<>>, FreshMailbox(TRUE, 1),
               [m \in {1, MirrorMsg - 1, MirrorMsg} |-> NoOcc])
      P  == Ran(Ran(Ran(Discovered(D0, <<1>>), "occurrence_parse"),
                    "occurrence_stitch"), "ticket_apply_routing")
      Q  == {queue_ticket_reply(D, D.occs[1].ticket_id, OssMessageId(MirrorMsg), 1)
               : D \in P}
  IN  UNION {Discovered(D, <<MirrorMsg - 1, MirrorMsg>>) : D \in Q}

InitDedupe ==
  /\ now = 2
  /\ tx = [w \in Workers |-> Idle]
  /\ faults = 0
  /\ apiCalls = 0
  /\ oauth = NoOAuthState
  /\ \E S \in SeedCopies \cup SeedMirror :
       /\ jobs = S.jobs
       /\ mailbox = S.mailbox
       /\ occs = S.occs
       /\ blobs = S.blobs
       /\ messages = S.messages
       /\ contents = S.contents
       /\ tickets = S.tickets
       /\ tmsgs = S.tmsgs
       /\ events = S.events
       /\ routing = S.routing

NextDedupe ==
  \/ \E w \in Workers : Claim(w)
  \/ \E w \in Workers : Select(w)
  \/ \E w \in Workers : Write(w)

SpecDedupe == InitDedupe /\ [][NextDedupe]_vars

\* ------------------------------------------------------------ the stitch
\* The fourth specification starts from five mails that went through the
\* pipeline and have a ticket each, an agent's reply on the ticket of the
\* last of them, and one more mail, discovered and fetched with them, that carries
\* one combination of the headers occurrence_stitch reads; every fourth
\* mail is the mirror of the agent's reply.  The workers run.
StitchMsgs ==
  {m \in StitchFirst..(StitchFirst + 4 * HeaderCombinations - 1) : m % 4 \in {0, 1}}

RECURSIVE RanTimes(_, _, _)
RanTimes(Ds, type, n) ==
  IF n = 0 THEN Ds ELSE RanTimes(Ran(Ds, type), type, n - 1)

\* the database after the mail m and the mails of StitchBase were discovered
\* and fetched, the mails of StitchBase went through the pipeline, and an
\* agent replied on the ticket of the last of them
StitchTickets(m) ==
  LET D0 == Db(<<>>, FreshMailbox(TRUE, 1),
               [k \in 1..(StitchFirst + 4 * HeaderCombinations - 1) |-> NoOcc])
      n  == Len(StitchBase)
      P  == RanTimes(RanTimes(RanTimes(Discovered(D0, StitchBase \o <<m>>),
                                       "occurrence_parse", n),
                              "occurrence_stitch", n),
                     "ticket_apply_routing", n)
  IN  {queue_ticket_reply(D, D.occs[StitchBase[n]].ticket_id,
                          OssMessageId(StitchFirst), 1) : D \in P}

SeedStitch == UNION {StitchTickets(m) : m \in StitchMsgs}

InitStitch ==
  /\ now = 2
  /\ tx = [w \in Workers |-> Idle]
  /\ faults = 0
  /\ apiCalls = 0
  /\ oauth = NoOAuthState
  /\ \E S \in SeedStitch :
       /\ jobs = S.jobs
       /\ mailbox = S.mailbox
       /\ occs = S.occs
       /\ blobs = S.blobs
       /\ messages = S.messages
       /\ contents = S.contents
       /\ tickets = S.tickets
       /\ tmsgs = S.tmsgs
       /\ events = S.events
       /\ routing = S.routing

NextStitch ==
  \/ \E w \in Workers : Claim(w)
  \/ \E w \in Workers : Finish(w)
  \/ \E w \in Workers : Restart(w)

SpecStitch == InitStitch /\ [][NextStitch]_vars

\* ---------------------------------------------- services/ticket_commands.py
\* PATCH /tickets/{id}: updates is the request body, a record of the keys
\* given; the ticket row is locked from the load to the commit.  Both
\* assignee keys at once are refused (422).  priority is left out.
UpdateInputs ==
  {[status |-> "open"], [assignee_user_id |-> 1], [assignee_queue_id |-> 1],
   [assignee_queue_id |-> NoId], [status |-> "pending", assignee_user_id |-> 2],
   [assignee_user_id |-> 1, assignee_queue_id |-> 1]}

\* seeded fault: an assignment that leaves the other assignee as it is
Reassigned(t, updates) ==
  IF "assignee_user_id" \in DOMAIN updates
    THEN [t EXCEPT !.assignee_user_id = updates.assignee_user_id]
    ELSE [t EXCEPT !.assignee_queue_id = updates.assignee_queue_id]

Assigned(t, updates) ==
  IF "assignee_user_id" \in DOMAIN updates
    THEN IF updates.assignee_user_id = NoId
           THEN [t EXCEPT !.assignee_user_id = NoId, !.assignee_queue_id = NoId]
           ELSE [t EXCEPT !.assignee_user_id = updates.assignee_user_id,
                          !.assignee_queue_id = NoId]
    ELSE IF updates.assignee_queue_id = NoId
           THEN [t EXCEPT !.assignee_user_id = NoId, !.assignee_queue_id = NoId]
           ELSE [t EXCEPT !.assignee_queue_id = updates.assignee_queue_id,
                          !.assignee_user_id = NoId]

update_ticket(i, updates) ==
  /\ apiCalls < MaxApiCalls
  /\ ~({"assignee_user_id", "assignee_queue_id"} \subseteq DOMAIN updates)
  /\ LET t0 == tickets[i]
         t1 == IF "status" \in DOMAIN updates /\ t0.status # updates.status
                 THEN [t0 EXCEPT !.status = updates.status,
                                 !.closed = updates.status \in {"closed", "spam"}]
                 ELSE t0
         t2 == IF DOMAIN updates \cap {"assignee_user_id", "assignee_queue_id"} # {}
                 THEN Assigned(t1, updates) ELSE t1
     IN  /\ tickets' = [tickets EXCEPT ![i] = t2]
         /\ events' = IF t2 # t0
                        THEN Append(events, [ticket |-> t0.id,
                                             type |-> "ticket_updated",
                                             occ |-> NoId])
                        ELSE events
  /\ apiCalls' = apiCalls + 1
  /\ UNCHANGED <<oauth, now, jobs, mailbox, occs, blobs, messages, contents, tmsgs,
                 routing, tx, faults>>

\* ------------------------------------------------------------ the routing
\* The fifth specification starts from one mail of each combination of
\* recipient headers and one of four configurations of the organization.
\* Either the mail is discovered and fetched, or it has gone through the
\* pipeline, its routing job has been delivered again, and a copy of the
\* mail has been stitched to the same message and ticket.  One more start has
\* two mails with a ticket each.  The workers run and an agent updates a
\* ticket.
Rule(id, priority, is_enabled, recipient_pattern, sender_email_pattern, direction, user, queue, set_status, drop, auto_close) ==
  [id |-> id, priority |-> priority, is_enabled |-> is_enabled,
   match_recipient_pattern |-> recipient_pattern,
   match_sender_domain_pattern |-> {},
   match_sender_email_pattern |-> sender_email_pattern,
   match_direction |-> direction, action_assign_user_id |-> user,
   action_assign_queue_id |-> queue, action_set_status |-> set_status,
   action_drop |-> drop, action_auto_close |-> auto_close]

\* the addresses 1 to 4 are allowlisted; the pattern of address 5 is
\* disabled
Allowlist ==
  {[pattern |-> {1, 2}, is_enabled |-> TRUE],
   [pattern |-> {3, 4}, is_enabled |-> TRUE],
   [pattern |-> {}, is_enabled |-> TRUE],
   [pattern |-> {5}, is_enabled |-> FALSE]}

RoutingConfigs ==
  {\* two rules that match every mail, the second first by priority
   [recipient_allowlist |-> Allowlist,
    routing_rules |->
      << Rule(1, 20, TRUE, {}, {}, "none", NoId, 1, "open", FALSE, FALSE),
         Rule(2, 10, TRUE, {}, {}, "none", 1, NoId, "pending", FALSE, FALSE) >>],
   \* a disabled rule, a rule that closes and sets a status, for two
   \* addresses, and a rule of the same priority that only drops
   [recipient_allowlist |-> Allowlist,
    routing_rules |->
      << Rule(3, 10, TRUE, {}, {}, "none", NoId, NoId, "none", TRUE, FALSE),
         Rule(2, 10, TRUE, {1, 2}, {}, "inbound", NoId, NoId, "open", FALSE, TRUE),
         Rule(1, 10, FALSE, {}, {}, "none", 2, NoId, "closed", FALSE, FALSE) >>],
   \* a rule for outbound mail, a rule for one sender that names a user
   \* and a queue, and a rule that names a queue
   [recipient_allowlist |-> Allowlist,
    routing_rules |->
      << Rule(1, 10, TRUE, {}, {}, "outbound", 2, NoId, "none", FALSE, FALSE),
         Rule(2, 20, TRUE, {}, {2}, "none", 1, 1, "none", FALSE, FALSE),
         Rule(3, 30, TRUE, {3, 4}, {}, "none", NoId, 2, "none", FALSE, FALSE) >>],
   \* the allowlist and no rule
   [recipient_allowlist |-> Allowlist, routing_rules |-> <<>>]}

RoutingMsgs ==
  {m \in RoutingFirst..(RoutingFirst + 2 * RecipientCombinations - 1) :
     (m - RoutingFirst) % 2 = 0}

\* the routing job of the routed occurrence of D, delivered again
RoutingRedelivered(D) ==
  enqueue_job(D, OccurrenceJob("ticket_apply_routing",
                               CHOOSE k \in DOMAIN D.occs : D.occs[k].state = "routed"))

SeedRouting(m, c) ==
  LET D0 == [Db(<<>>, FreshMailbox(TRUE, 1), [k \in {m, m + 1} |-> NoOcc])
               EXCEPT !.routing = c]
  IN  Discovered(D0, <<m>>)
        \cup {RoutingRedelivered(D) :
                D \in RanTimes(RanTimes(RanTimes(Discovered(D0, <<m, m + 1>>),
                                                 "occurrence_parse", 2),
                                        "occurrence_stitch", 2),
                               "ticket_apply_routing", 1)}

\* two mails of different messages, the first to address 1 and the second to
\* address 3, stitched to a ticket each under the configuration with the
\* rule that only drops
RulePair == <<RoutingFirst + 2, RoutingFirst + 8>>

SeedRulePair ==
  LET c  == CHOOSE r \in RoutingConfigs :
              \E i \in DOMAIN r.routing_rules : r.routing_rules[i].action_drop
      D0 == [Db(<<>>, FreshMailbox(TRUE, 1),
                [k \in {RulePair[1], RulePair[2]} |-> NoOcc])
               EXCEPT !.routing = c]
  IN  RanTimes(RanTimes(Discovered(D0, RulePair), "occurrence_parse", 2),
               "occurrence_stitch", 2)

InitRouting ==
  /\ now = 2
  /\ tx = [w \in Workers |-> Idle]
  /\ faults = 0
  /\ apiCalls = 0
  /\ oauth = NoOAuthState
  /\ \E S \in SeedRulePair
             \cup UNION {SeedRouting(m, c) : m \in RoutingMsgs, c \in RoutingConfigs} :
         /\ jobs = S.jobs
         /\ mailbox = S.mailbox
         /\ occs = S.occs
         /\ blobs = S.blobs
         /\ messages = S.messages
         /\ contents = S.contents
         /\ tickets = S.tickets
         /\ tmsgs = S.tmsgs
         /\ events = S.events
         /\ routing = S.routing

NextRouting ==
  \/ \E w \in Workers : Claim(w)
  \/ \E w \in Workers : Finish(w)
  \/ \E w \in Workers : Restart(w)
  \/ \E i \in DOMAIN tickets, updates \in UpdateInputs : update_ticket(i, updates)

SpecRouting == InitRouting /\ [][NextRouting]_vars

\* ------------------------------------------------------------ the pipeline
\* The sixth specification starts from one or two mails that a sync has
\* just discovered, each with its occurrence_fetch_raw job and the raw mail
\* in its payload: one mail, a mail and its copy, or two different mails,
\* under each configuration of the organization.  The workers run, each in
\* its loop of claim and run, and no handler meets a fault.
PipelineMails ==
  UNION {{<<m>>, <<m, m + 1>>, <<m, m + 2>>} :
           m \in {RoutingFirst, RoutingFirst + 2, RoutingFirst + 8, RoutingFirst + 16}}

SeedPipeline ==
  {SyncMessages([Db(<<>>, FreshMailbox(TRUE, 1),
                    [k \in {ms[i] : i \in DOMAIN ms} |-> NoOcc])
                   EXCEPT !.routing = c], ms, 1) :
     ms \in PipelineMails, c \in RoutingConfigs}

InitPipeline ==
  /\ now = 2
  /\ tx = [w \in Workers |-> Idle]
  /\ faults = MaxFaults
  /\ apiCalls = 0
  /\ oauth = NoOAuthState
  /\ \E S \in SeedPipeline :
       /\ jobs = S.jobs
       /\ mailbox = S.mailbox
       /\ occs = S.occs
       /\ blobs = S.blobs
       /\ messages = S.messages
       /\ contents = S.contents
       /\ tickets = S.tickets
       /\ tmsgs = S.tmsgs
       /\ events = S.events
       /\ routing = S.routing

NextPipeline ==
  \/ \E w \in Workers : Claim(w)
  \/ \E w \in Workers : Finish(w)

\* with no fault left to meet, Finish(w) is enabled when w has claimed a job
\* and the run of the job waits for no lock
FinishEnabled(w) ==
  /\ tx[w].pc = "claimed"
  /\ ~run_one_job(View(w), tx[w].job, "none", 0, tx[w].start, now).db.blocked

\* run_worker_forever: a worker that can claim a job does (WF_vars of
\* Claim), and a claimed job is run to its commit (weak fairness of Finish,
\* written out with FinishEnabled for ENABLED <<Finish(w)>>_vars)
SpecPipeline ==
  /\ InitPipeline
  /\ [][NextPipeline]_vars
  /\ \A w \in Workers :
       /\ WF_vars(Claim(w))
       /\ ([]<>(~FinishEnabled(w)) \/ []<><<Finish(w)>>_vars)

\* ------------------------------------------------------- the connection
\* The seventh specification connects the mailbox through the OAuth
\* callback while the workers run: the mailbox is there, enabled or
\* disabled in the database, and no state value has been issued.
InitConnect ==
  /\ now = 2
  /\ tx = [w \in Workers |-> Idle]
  /\ faults = 0
  /\ apiCalls = 0
  /\ oauth = NoOAuthState
  /\ \E S \in SeedFresh \cup SeedDisabled :
       /\ jobs = S.jobs
       /\ mailbox = S.mailbox
       /\ occs = S.occs
       /\ blobs = S.blobs
       /\ messages = S.messages
       /\ contents = S.contents
       /\ tickets = S.tickets
       /\ tmsgs = S.tmsgs
       /\ events = S.events
       /\ routing = S.routing

NextConnect ==
  \/ \E org \in Orgs : start_gmail_journal_oauth(org)
  \/ \E org \in Orgs, known \in BOOLEAN, outcome \in TokenOutcomes :
       gmail_oauth_callback(org, known, outcome)
  \/ \E w \in Workers : Claim(w)
  \/ \E w \in Workers : Finish(w)
  \/ ApiSyncHistory
  \/ Tick

SpecConnect == InitConnect /\ [][NextConnect]_vars

\* ------------------------------------------------------------- the pause
\* The eighth specification follows a mailbox through a pause of its
\* ingestion.  It starts with a history sync one failure before the circuit
\* breaker; late in the pause that the circuit breaker has set, PauseLeft
\* before its end (the failed history sync alone; the failed backfill
\* beside the queued poll); with a poll queued for a mailbox that is
\* disabled; and with a fetch job that has failed at max_attempts.  The
\* provider has nothing new for the mailbox, and the time runs on to the
\* next poll.
PauseLeft == 4

BackfillTripped ==
  [Job("mailbox_backfill", Mbx, <<"mailbox_backfill", Mbx>>, NoId, FALSE, 1)
     EXCEPT !.status = "failed", !.attempts = CircuitBreakerAttempts,
            !.last_error = TRUE, !.locked_by = WorkerId]

PausedMailbox ==
  [FreshMailbox(TRUE, ProviderHead) EXCEPT !.paused_until = 2 + PauseLeft,
                                           !.pause_reason = "circuit",
                                           !.last_sync_error = "job_error"]

SeedPause ==
  {Db(<< [HistoryJob(1) EXCEPT !.attempts = CircuitBreakerAttempts - 1,
                               !.last_error = TRUE, !.locked_by = WorkerId] >>,
      FreshMailbox(TRUE, ProviderHead), NoOccs),
   Db(<<TrippedHistoryJob>>, PausedMailbox, NoOccs),
   Db(<<BackfillTripped, HistoryJob(1)>>, PausedMailbox, NoOccs),
   Db(<<HistoryJob(1)>>, FreshMailbox(FALSE, ProviderHead), NoOccs),
   Db(<< [Job("occurrence_fetch_raw", Mbx, <<"occurrence_fetch_raw", 1>>, 1,
              TRUE, 1)
          EXCEPT !.status = "failed", !.attempts = DefaultMaxAttempts,
                 !.last_error = TRUE, !.locked_by = WorkerId] >>,
      FreshMailbox(TRUE, ProviderHead),
      [m \in ProviderMsgs |->
         IF m = 1 THEN [NoOcc EXCEPT !.exists = TRUE,
                                     !.history_id = ProviderHistoryId(1)]
         ELSE NoOcc])}

MaxPauseNow == MaxNow + HistoryPollHalfSeconds

InitPause ==
  /\ now = 2
  /\ tx = [w \in Workers |-> Idle]
  /\ faults = 0
  /\ apiCalls = 0
  /\ oauth = NoOAuthState
  /\ \E S \in SeedPause :
       /\ jobs = S.jobs
       /\ mailbox = S.mailbox
       /\ occs = S.occs
       /\ blobs = S.blobs
       /\ messages = S.messages
       /\ contents = S.contents
       /\ tickets = S.tickets
       /\ tmsgs = S.tmsgs
       /\ events = S.events
       /\ routing = S.routing

NextPause ==
  \/ \E w \in Workers : Claim(w)
  \/ \E w \in Workers : Finish(w)
  \/ \E w \in Workers : Restart(w)
  \/ mailbox_sync_resume
  \/ ApiSyncHistory
  \/ \E org \in Orgs, j \in DOMAIN jobs : dlq_job_replay(org, j)
  \/ TickTo(MaxPauseNow)

SpecPause == InitPause /\ [][NextPause]_vars

\* the same with workers that keep running, a supervisor that restarts
\* them and a clock that goes on
SpecPauseFair ==
  /\ InitPause
  /\ [][NextPause]_vars
  /\ WF_vars(TickTo(MaxPauseNow))
  /\ \A w \in Workers :
       /\ WF_vars(Claim(w))
       /\ WF_vars(Restart(w))
       /\ ([]<>(~FinishEnabled(w)) \/ []<><<Finish(w)>>_vars)

\* ---------------------------------------------------------- the recovery
\* The ninth specification runs the workers against a provider that has
\* come to rest: its last change, the arrival of the newest message, is
\* older than the history it keeps, so that history.list answers 404 to a
\* start below ProviderOldestHistoryId, the history id of its profile.
\* The mailbox has an older history id and its poll is queued.
ProviderOldestHistoryId == ProviderHead + 1

ProviderAnswer(D, job) ==
  IF job.type = "mailbox_history_sync" /\ D.mailbox.gmail_history_id # NoId
     /\ D.mailbox.gmail_history_id < ProviderOldestHistoryId
    THEN "history_expired" ELSE "none"

CommitRun(w, R) ==
  /\ ~R.db.blocked
  /\ Commit(R.db)
  /\ tx' = [tx EXCEPT ![w] = Idle]

FinishAtRest(w) ==
  /\ tx[w].pc = "claimed"
  /\ CommitRun(w, run_one_job(View(w), tx[w].job,
                              ProviderAnswer(View(w), jobs[tx[w].job]), 0,
                              tx[w].start, now))
  /\ UNCHANGED <<oauth, now, faults, apiCalls>>

InitRecovery ==
  /\ now = 2
  /\ tx = [w \in Workers |-> Idle]
  /\ faults = 0
  /\ apiCalls = 0
  /\ oauth = NoOAuthState
  /\ \E S \in {Db(<<HistoryJob(1)>>, FreshMailbox(TRUE, 1), NoOccs)} :
       /\ jobs = S.jobs
       /\ mailbox = S.mailbox
       /\ occs = S.occs
       /\ blobs = S.blobs
       /\ messages = S.messages
       /\ contents = S.contents
       /\ tickets = S.tickets
       /\ tmsgs = S.tmsgs
       /\ events = S.events
       /\ routing = S.routing

NextRecovery ==
  \/ \E w \in Workers : Claim(w)
  \/ \E w \in Workers : FinishAtRest(w)
  \/ TickTo(MaxPauseNow)

SpecRecovery == InitRecovery /\ [][NextRecovery]_vars

\* ------------------------------------------------- the sender of a routing
\* The specification of the sender starts from one mail of each combination
\* of recipient headers under each configuration of the organization: the
\* mail was discovered, fetched, parsed and stitched to a ticket of its own,
\* its routing job waits, and an agent has replied on the ticket.  The
\* workers run.
SeedSender(m, c) ==
  LET D0 == [Db(<<>>, FreshMailbox(TRUE, 1), [k \in {m} |-> NoOcc])
               EXCEPT !.routing = c]
  IN  {queue_ticket_reply(D, D.occs[m].ticket_id, OssMessageId(StitchFirst), 1) :
         D \in Ran(Ran(Discovered(D0, <<m>>), "occurrence_parse"),
                   "occurrence_stitch")}

InitSender ==
  /\ now = 2
  /\ tx = [w \in Workers |-> Idle]
  /\ faults = 0
  /\ apiCalls = 0
  /\ oauth = NoOAuthState
  /\ \E S \in UNION {SeedSender(m, c) : m \in RoutingMsgs, c \in RoutingConfigs} :
         /\ jobs = S.jobs
         /\ mailbox = S.mailbox
         /\ occs = S.occs
         /\ blobs = S.blobs
         /\ messages = S.messages
         /\ contents = S.contents
         /\ tickets = S.tickets
         /\ tmsgs = S.tmsgs
         /\ events = S.events
         /\ routing = S.routing

NextSender ==
  \/ \E w \in Workers : Claim(w)
  \/ \E w \in Workers : Finish(w)
  \/ \E w \in Workers : Restart(w)

SpecSender == InitSender /\ [][NextSender]_vars

\* ------------------------------------------------------------- properties
\* the steps that end the iteration of worker w
Ended(w) == tx[w].pc = "claimed" /\ tx'[w].pc # "claimed"
Committed(w) == tx[w].pc = "claimed" /\ tx'[w].pc = "idle"
RolledBack(w) == tx[w].pc = "claimed" /\ tx'[w].pc = "crashed"

\* the run of w did not succeed
HandlerFailed(w) == Ended(w) /\ jobs'[tx[w].job].status # "succeeded"

\* the handler of r raises PermanentJobError
Permanent(r) == r.type \in SyncJobTypes /\ ~r.payload_ok

\* C1: in every reachable state at most one job with status queued or
\* running exists for each (organization_id, type, dedupe_key) with a
\* dedupe key; in particular at most one mailbox_history_sync job of the
\* mailbox is live
C1_DedupeUnique ==
  /\ \A i, k \in DOMAIN jobs :
       (i # k /\ Live(jobs[i]) /\ Live(jobs[k])) => ~SameDedupe(jobs[i], jobs[k])
  /\ Cardinality({i \in DOMAIN jobs :
                    /\ jobs[i].status \in {"queued", "running"}
                    /\ jobs[i].type = "mailbox_history_sync"
                    /\ jobs[i].mailbox = Mbx}) <= 1

\* the sync/history request met the live, four times retried history sync
\* and added no job
C1_Witness ==
  /\ apiCalls = 1
  /\ Len(jobs) = 1
  /\ jobs[1].type = "mailbox_history_sync"
  /\ jobs[1].status = "queued"
  /\ jobs[1].attempts = CircuitBreakerAttempts - 1

\* C2: a claim takes a job that is queued with run_at <= now and that no
\* other worker holds, so no two workers ever run the same job at the same
\* time and a running, succeeded or failed job is never claimed
C2_ClaimExclusive ==
  [][\A w \in Workers :
       (tx[w].pc = "idle" /\ tx'[w].pc = "claimed") =>
         /\ tx'[w].job \in DOMAIN jobs
         /\ jobs[tx'[w].job].status = "queued"
         /\ jobs[tx'[w].job].run_at <= now
         /\ \A v \in Workers \ {w} :
              ~(tx[v].pc = "claimed" /\ tx[v].job = tx'[w].job)]_vars

\* two workers run two jobs at the same time
C2_Witness ==
  \E v, w \in Workers :
    /\ v # w
    /\ tx[v].pc = "claimed"
    /\ tx[w].pc = "claimed"
    /\ tx[v].job # tx[w].job

\* C3: when the transaction of an iteration ends, by commit or by rollback,
\* the job it claimed is succeeded, failed or queued, never running
C3_NotLeftRunning ==
  [][\A w \in Workers :
       Ended(w) => jobs'[tx[w].job].status \in {"succeeded", "failed", "queued"}]_vars

\* an iteration was rolled back and its job is queued as before
C3_Witness ==
  /\ \E w \in Workers : tx[w].pc = "crashed"
  /\ faults = 1
  /\ \E i \in DOMAIN jobs : jobs[i].status = "queued" /\ jobs[i].run_at <= now
  /\ \A i \in DOMAIN jobs : jobs[i].status # "running"

\* the circuit breaker of _mark_failed applies to the failure of r
Trips(r) ==
  /\ ~Permanent(r)
  /\ r.type \in SyncJobTypes
  /\ r.mailbox # NoId
  /\ r.attempts + 1 >= CircuitBreakerAttempts

RunBound(r) ==
  IF r.type \in SyncJobTypes /\ r.mailbox # NoId
    THEN Min(CircuitBreakerAttempts, r.max_attempts)
    ELSE r.max_attempts

\* C5: every failing run, whatever the exception, adds one to attempts, and
\* the run that reaches the bound (max_attempts, 5 for a sync job of a
\* mailbox) leaves the job failed
C5_EveryFailureCounted ==
  [][\A w \in Workers :
       HandlerFailed(w) =>
         /\ jobs'[tx[w].job].attempts = jobs[tx[w].job].attempts + 1
         /\ (jobs'[tx[w].job].attempts >= RunBound(jobs[tx[w].job])
               => jobs'[tx[w].job].status = "failed")]_vars

PauseFields(mb) == <<mb.paused_until, mb.pause_reason>>

\* C6: a failing run pauses the mailbox (paused_until 15 minutes ahead, the
\* circuit-breaker reason) and leaves the job failed exactly when the failure
\* is retryable, the job is a mailbox_backfill or mailbox_history_sync of a
\* mailbox and its incremented attempts is at least 5; a permanent failure
\* or a failure of another job type leaves the pause fields unchanged
C6_CircuitBreaker ==
  [][\A w \in Workers :
       HandlerFailed(w) =>
         LET r  == jobs[tx[w].job]
             r2 == jobs'[tx[w].job]
             paused == /\ mailbox'.paused_until = now + MailboxSyncPauseHalfSeconds
                       /\ mailbox'.pause_reason = "circuit"
                       /\ r2.status = "failed"
         IN  /\ paused <=> Trips(r)
             /\ (Permanent(r) \/ r.type \notin SyncJobTypes)
                  => PauseFields(mailbox') = PauseFields(mailbox)]_vars

\* C7: when a mailbox_history_sync run succeeds and commits, the job is
\* succeeded and exactly one live mailbox_history_sync job of the mailbox
\* and key exists, queued with run_at = now + the poll interval, strictly in
\* the future; a successful run of another type schedules no follow-up
C7_FollowUp ==
  [][\A w \in Workers :
       (Committed(w) /\ jobs'[tx[w].job].status = "succeeded") =>
         LET r == jobs[tx[w].job]
             next == {i \in DOMAIN jobs' :
                        /\ jobs'[i].status \in {"queued", "running"}
                        /\ jobs'[i].type = "mailbox_history_sync"
                        /\ jobs'[i].mailbox = r.mailbox
                        /\ jobs'[i].dedupe_key = <<"mailbox_history_sync", r.mailbox>>}
             added == DOMAIN jobs' \ DOMAIN jobs
         IN  IF r.type = "mailbox_history_sync"
               THEN /\ Cardinality(next) = 1
                    /\ \A i \in next :
                         /\ jobs'[i].status = "queued"
                         /\ jobs'[i].run_at = now + HistoryPollHalfSeconds
                         /\ jobs'[i].run_at > now
               ELSE \A i \in added : jobs'[i].run_at <= now]_vars

\* a history sync succeeded after the start and its next poll is queued
C7_Witness ==
  \E i, k \in DOMAIN jobs :
    /\ jobs[i].type = "mailbox_history_sync"
    /\ jobs[i].status = "succeeded"
    /\ jobs[k].type = "mailbox_history_sync"
    /\ jobs[k].status = "queued"
    /\ jobs[k].run_at >= 2 + HistoryPollHalfSeconds

\* the mailbox is disabled or its pause has not run out
Gated == ~mailbox.is_enabled \/ (mailbox.paused_until # NoId /\ mailbox.paused_until > now)

\* C8: while the mailbox is disabled or paused into the future, the sync
\* of a claimed backfill or history job returns without an error and
\* without an effect, whatever the provider would answer: no provider call,
\* no occurrence, no job, no change of the mailbox
C8_GatedSyncNoEffect ==
  \A w \in Workers :
    (tx[w].pc = "claimed" /\ jobs[tx[w].job].type \in SyncJobTypes /\ Gated) =>
      \A f \in Faults, k \in 0..MaxMsgs :
        /\ sync_mailbox_backfill(View(w), f, k, tx[w].start, now)
             = [db |-> View(w), outcome |-> "ok"]
        /\ sync_mailbox_history(View(w), f, k, tx[w].start, now)
             = [db |-> View(w), outcome |-> "ok"]

\* a sync job runs while the enabled mailbox is paused by the breaker
C8_Witness ==
  \E w \in Workers :
    /\ tx[w].pc = "claimed"
    /\ jobs[tx[w].job].type \in SyncJobTypes
    /\ mailbox.is_enabled
    /\ mailbox.pause_reason = "circuit"
    /\ mailbox.paused_until > now

\* the place of a state and of a job type in the pipeline
Rank(state) ==
  CASE state = "raw_fetched" -> 1
    [] state = "parsed"      -> 2
    [] state = "stitched"    -> 3
    [] state = "routed"      -> 4
    [] OTHER                 -> 0

Stage(type) ==
  CASE type = "occurrence_fetch_raw" -> 1
    [] type = "occurrence_parse"     -> 2
    [] type = "occurrence_stitch"    -> 3
    [] type = "ticket_apply_routing" -> 4
    [] OTHER                         -> 0

\* the effects of the stages are there in pipeline order
InOrder(o) ==
  /\ Rank(o.state) >= 1 => o.raw_blob_id # NoId
  /\ Rank(o.state) >= 2 => o.message_id # NoId
  /\ Rank(o.state) >= 3 => o.ticket_id # NoId
  /\ o.ticket_id # NoId => o.message_id # NoId
  /\ o.message_id # NoId => o.raw_blob_id # NoId

\* C9: the effects of the stages on an occurrence come in the order
\* fetch_raw, parse, stitch, apply_routing; its state never moves from a
\* later of raw_fetched, parsed, stitched, routed back to an earlier one, and
\* the run of a job whose stage the occurrence has passed changes nothing
\* of the occurrence
C9_StagesInOrder ==
  [][/\ \A m \in ProviderMsgs :
          /\ InOrder(occs'[m])
          /\ Rank(occs[m].state) >= 1 /\ Rank(occs'[m].state) >= 1
               => Rank(occs'[m].state) >= Rank(occs[m].state)
     /\ \A w \in Workers :
          (Ended(w) /\ Stage(jobs[tx[w].job].type) >= 1
             /\ Stage(jobs[tx[w].job].type) <= Rank(occs[jobs[tx[w].job].occ].state))
            => occs' = occs]_vars

\* fetch_raw ran a second time on the routed occurrence
C9_Witness ==
  /\ occs[1].state = "routed"
  /\ \E i, k \in DOMAIN jobs :
       /\ i < k
       /\ jobs[i].type = "occurrence_fetch_raw" /\ jobs[i].status = "succeeded"
       /\ jobs[k].type = "occurrence_fetch_raw" /\ jobs[k].status = "succeeded"
       /\ jobs[k].occ = 1

\* the occurrence is past the state gate of the handler of the type
PastGate(type, o) ==
  CASE type = "occurrence_fetch_raw" ->
         o.raw_blob_id # NoId /\ o.state \in {"raw_fetched", "parsed", "stitched", "routed"}
    [] type = "occurrence_parse" ->
         o.message_id # NoId /\ o.state \in {"parsed", "stitched", "routed"}
    [] type = "occurrence_stitch" ->
         o.ticket_id # NoId /\ o.state \in {"stitched", "routed"}
    [] OTHER -> FALSE

\* C10: the run of a fetch_raw, parse or stitch job on an occurrence that
\* is past the gate of its handler has no side effect: no message_contents
\* row, no ticket, no job, no change of the occurrence; only its own job row
\* becomes succeeded
C10_RerunNoEffect ==
  [][\A w \in Workers :
       (Committed(w) /\ jobs[tx[w].job].occ # NoId
          /\ occs[jobs[tx[w].job].occ].exists
          /\ PastGate(jobs[tx[w].job].type, occs[jobs[tx[w].job].occ]))
         => /\ UNCHANGED <<mailbox, occs, blobs, messages, contents, tickets, tmsgs,
                           events>>
            /\ jobs' = [jobs EXCEPT ![tx[w].job].status = "succeeded",
                                    ![tx[w].job].locked_by = WorkerId]]_vars

\* parse ran a second time, after the stitch, and left one content row
C10_Witness ==
  /\ Rank(occs[1].state) >= 3
  /\ occs[1].message_id # NoId
  /\ contents[occs[1].message_id] = {1}
  /\ \E i, k \in DOMAIN jobs :
       /\ i < k
       /\ jobs[i].type = "occurrence_parse" /\ jobs[i].status = "succeeded"
       /\ jobs[k].type = "occurrence_parse" /\ jobs[k].status = "succeeded"
       /\ jobs[k].occ = 1

\* the X-OSS-Message-ID headers and the signatures of the parsed mails the
\* upsert is applied to
InputOss == NoId..(DedupeMsgs - 1)
InputSignatures == 1..DedupeMsgs

\* the upsert of a parsed mail M1 and after it the upsert of M2 return one
\* message and the second adds no messages row
SameMessage(D, oss1, oss2, fp, sig) ==
  LET U1 == _upsert_canonical_message(D, oss1, 1, fp, sig)
      U2 == _upsert_canonical_message(U1.db, oss2, 2, fp, sig)
  IN  U2.id = U1.id /\ Len(U2.db.messages) = Len(U1.db.messages)

\* C11 as stated: for any two parsed messages of the tenant with identical
\* fingerprint and identical signature, processed one after the other, the
\* canonical upsert returns the same message_id and creates no second
\* messages row
C11_AsStated ==
  \A oss1 \in InputOss, oss2 \in InputOss, sig \in InputSignatures :
    SameMessage(View(ApiSession), oss1, oss2, Fingerprint(1), sig)

\* C11 as amended: the same for two messages neither of which carries an
\* X-OSS-Message-ID that message_oss_ids maps to a message before the first
\* of them is processed (a header that is registered resolves to its own
\* message before the fingerprint is looked at)
C11_Dedupe ==
  \A oss1 \in InputOss, oss2 \in InputOss, sig \in InputSignatures :
    LookupOss(messages, oss1) = {} /\ LookupOss(messages, oss2) = {}
      => SameMessage(View(ApiSession), oss1, oss2, Fingerprint(1), sig)

\* the copies 1 and 2 were parsed one after the other: both occurrences
\* carry the one message of their fingerprint and signature
C11_Witness ==
  /\ occs[1].message_id # NoId
  /\ DOMAIN occs = 1..DedupeMsgs
  /\ occs[2].message_id = occs[1].message_id
  /\ Cardinality({i \in DOMAIN messages :
                    messages[i].fp = Fingerprint(1)
                      /\ messages[i].sig = Signature(1)}) = 1

\* the messages rows of a fingerprint and signature
RowsOf(fp, sig) ==
  {i \in DOMAIN messages : messages[i].fp = fp /\ messages[i].sig = sig}

\* two occurrences whose mails have one fingerprint and signature and no
\* X-OSS-Message-ID
Copies(m1, m2) ==
  /\ m1 # m2
  /\ Fingerprint(m1) = Fingerprint(m2)
  /\ Signature(m1) = Signature(m2)
  /\ OssMessageId(m1) = NoId
  /\ OssMessageId(m2) = NoId

\* C12: when two workers parse, in concurrent transactions, two occurrences
\* whose content has the same fingerprint and signature, then once both have
\* committed there is exactly one messages row of that fingerprint and
\* signature and both occurrences carry the id of that row
C12_ConcurrentParse ==
  \A m1 \in DOMAIN occs, m2 \in DOMAIN occs :
    Copies(m1, m2) /\ occs[m1].message_id # NoId /\ occs[m2].message_id # NoId
      => /\ occs[m1].message_id = occs[m2].message_id
         /\ Cardinality(RowsOf(Fingerprint(m1), Signature(m1))) = 1

\* C13: stitching never creates a second ticket for a canonical message:
\* when several occurrences of the same canonical message are stitched, one
\* after the other or by different workers concurrently, every ticket that
\* was created is the ticket of a ticket_messages link, and every stitched
\* occurrence carries the ticket of the link of its message
C13_OneTicket ==
  /\ \A m \in DOMAIN occs :
       occs[m].message_id # NoId /\ occs[m].ticket_id # NoId
         => tmsgs[occs[m].message_id] = occs[m].ticket_id
  /\ \A t \in DOMAIN tickets : \E i \in DOMAIN tmsgs : tmsgs[i] = tickets[t].id

\* C14: after every completed canonical insert, whenever two messages of
\* the tenant share a fingerprint but differ in signature, all messages of
\* that fingerprint have the same collision_group_id and it is not null (so
\* a later message of the fingerprint with yet another signature has the
\* group id that is there)
C14_CollisionGroup ==
  \A i \in DOMAIN messages, k \in DOMAIN messages :
    messages[i].fp = messages[k].fp /\ messages[i].sig # messages[k].sig
      => /\ messages[i].collision_group_id # NoId
         /\ messages[i].collision_group_id = messages[k].collision_group_id

\* the step that commits the transaction of worker w
Wrote(w) == tx[w].pc \in {"claimed", "selected"} /\ tx'[w].pc = "idle"

\* the outbound messages an agent reply created with the oss id
Replies(oss) ==
  {i \in DOMAIN messages : messages[i].direction = "outbound"
                             /\ oss # NoId /\ messages[i].oss = oss}

\* C15: after an agent reply has created the canonical message M with
\* oss_message_id U, the parse of a provider mirror whose mail carries
\* X-OSS-Message-ID U resolves to M, whatever the fingerprint and signature
\* of the mirror: the parse adds no messages row and the message_id of the
\* mirror occurrence becomes M
C15_MirrorResolves ==
  [][\A w \in Workers :
       LET job == jobs[tx[w].job]
           m   == job.occ
       IN  /\ Wrote(w)
           /\ job.type = "occurrence_parse"
           /\ occs[m].state = "raw_fetched"
           /\ Replies(OssMessageId(m)) # {}
           => /\ occs'[m].state = "parsed"
              /\ occs'[m].message_id \in Replies(OssMessageId(m))
              /\ messages' = messages]_vars

\* the mirror was parsed after the copy without the header, which has the
\* fingerprint and signature of the mirror and a messages row of its own
C15_Witness ==
  /\ MirrorMsg \in DOMAIN occs
  /\ occs[MirrorMsg].message_id \in Replies(OssMessageId(MirrorMsg))
  /\ Signature(MirrorMsg - 1) = Signature(MirrorMsg)
  /\ occs[MirrorMsg - 1].message_id # NoId
  /\ occs[MirrorMsg - 1].message_id # occs[MirrorMsg].message_id
  /\ messages[occs[MirrorMsg - 1].message_id].fp_insert

\* the run of a mailbox_backfill job by worker w went through the sync and
\* committed
BackfillCompleted(w) ==
  /\ Committed(w)
  /\ jobs[tx[w].job].type = "mailbox_backfill"
  /\ jobs'[tx[w].job].status = "succeeded"
  /\ _load_mailbox_for_sync(View(w), now)

\* a backfill over the provider's messages was completed before
SecondCall ==
  mailbox.last_full_sync_at # NoId /\ \A m \in ProviderMsgs : occs[m].exists

FetchJobs(js, m) ==
  {i \in DOMAIN js : js[i].type = "occurrence_fetch_raw" /\ js[i].occ = m}

\* C16 as stated: a second sync_mailbox_backfill over the same provider
\* state, with any worker activity in between, leaves the set of occurrences
\* of the first (one per provider message) and exactly one
\* occurrence_fetch_raw job per provider message
C16_AsStated ==
  [][\A w \in Workers :
       BackfillCompleted(w) /\ SecondCall
         => \A m \in ProviderMsgs :
              occs'[m].exists /\ Cardinality(FetchJobs(jobs', m)) = 1]_vars

\* C16 as amended: the second call leaves the set of occurrences of the
\* first and, per provider message, exactly one occurrence_fetch_raw job
\* that is queued or running; the jobs that finished between the calls stay
\* beside it
C16_Idempotent ==
  [][\A w \in Workers :
       BackfillCompleted(w) /\ SecondCall
         => \A m \in ProviderMsgs :
              /\ occs'[m].exists
              /\ Cardinality({i \in FetchJobs(jobs', m) : Live(jobs'[i])}) = 1
              /\ \A i \in FetchJobs(jobs, m) : i \in FetchJobs(jobs', m)]_vars

\* a backfill ran after the start on the fetched occurrence of message 1
\* and queued a fetch_raw job beside the one that had succeeded
C16_Witness ==
  /\ mailbox.last_full_sync_at # NoId
  /\ mailbox.last_full_sync_at >= 2
  /\ occs[1].raw_blob_id # NoId
  /\ \E i \in FetchJobs(jobs, 1), k \in FetchJobs(jobs, 1) :
       jobs[i].status = "succeeded" /\ jobs[k].status = "queued" /\ k > i
  /\ Cardinality({i \in FetchJobs(jobs, 1) : Live(jobs[i])}) = 1

\* what the pipeline keeps in an occurrence
PipelineFields(o) ==
  <<o.exists, o.state, o.raw_blob_id, o.message_id, o.ticket_id,
    o.raw_fetch_error, o.parse_error, o.stitch_error, o.route_error>>

\* C17: the discovery of a provider message that is known already (the
\* upsert meets the row of the tenant, mailbox and provider message id)
\* changes only mirror fields of the occurrence: its state, raw_blob_id,
\* message_id, ticket_id and error fields are as before, whatever pipeline
\* state it is in; taken on the upsert itself in every reachable state and
\* on every committed run of a sync job
C17_RediscoveryFrame ==
  [][\A m \in ProviderMsgs :
       occs[m].exists
         => /\ PipelineFields(_upsert_occurrence(View(ApiSession), m).occs[m])
                 = PipelineFields(occs[m])
            /\ [_upsert_occurrence(View(ApiSession), m) EXCEPT
                  !.occs[m].history_id = occs[m].history_id] = View(ApiSession)
            /\ \A w \in Workers :
                 Committed(w) /\ jobs[tx[w].job].type \in SyncJobTypes
                   => PipelineFields(occs'[m]) = PipelineFields(occs[m])]_vars

\* a backfill after the start found message 1 again, whose occurrence was
\* routed and has its blob, message and ticket
C17_Witness ==
  /\ mailbox.last_full_sync_at # NoId
  /\ mailbox.last_full_sync_at >= 2
  /\ occs[1].state = "routed"
  /\ occs[1].raw_blob_id # NoId
  /\ occs[1].message_id # NoId
  /\ occs[1].ticket_id # NoId
  /\ \E i \in DOMAIN jobs : /\ jobs[i].type = "ticket_apply_routing"
                             /\ jobs[i].status = "queued"

\* the greatest of a set of history ids, NoId (no history id) below all
MaxOf(S) == CHOOSE h \in S : \A k \in S : k <= h

\* the history ids a run of the sync job of the type sees when it goes
\* through: those of the messages it lists and, in the history listing,
\* that of the mailbox at the provider
SeenIn(type) ==
  IF type = "mailbox_backfill"
    THEN {ProviderHistoryId(m) : m \in ProviderMsgs}
    ELSE {ProviderHead} \cup
         {ProviderHistoryId(m) :
            m \in {k \in ProviderMsgs :
                     ProviderHistoryId(k) > mailbox.gmail_history_id}}

\* the run of worker w went through its sync: it was not skipped for a
\* disabled or paused mailbox, did not fail and was not turned into the
\* recovery by a backfill
SyncCompleted(w) ==
  /\ jobs'[tx[w].job].status = "succeeded"
  /\ _load_mailbox_for_sync(View(w), now)
  /\ mailbox'.last_sync_error = "none"

\* C18: gmail_history_id of the mailbox never decreases over the runs of
\* sync_mailbox_backfill and sync_mailbox_history: a completed run sets it
\* to the greatest of its value before and the history ids seen in the run,
\* and a failed, skipped or recovery (HistoryExpired) run leaves it as it was
C18_HistoryIdMonotone ==
  [][/\ mailbox'.gmail_history_id >= mailbox.gmail_history_id
     /\ \A h \in NoId..(ProviderHead + 1), k \in 0..MaxMsgs :
          HighestHistoryId(h, SubSeq(ListedFrom(1), 1, k))
            = MaxOf({h} \cup {ProviderHistoryId(m) : m \in 1..k})
     /\ \A w \in Workers :
          Ended(w) /\ jobs[tx[w].job].type \in SyncJobTypes
            => mailbox'.gmail_history_id
                 = IF SyncCompleted(w)
                     THEN MaxOf({mailbox.gmail_history_id}
                                  \cup SeenIn(jobs[tx[w].job].type))
                     ELSE mailbox.gmail_history_id]_vars

\* a history sync after the start went through and moved the history id
\* of the mailbox up to that of the provider
C18_Witness ==
  /\ mailbox.last_incremental_sync_at # NoId
  /\ mailbox.last_incremental_sync_at >= 2
  /\ mailbox.last_full_sync_at = NoId
  /\ mailbox.gmail_history_id = ProviderHead

\* the queued or running mailbox_backfill jobs of the mailbox
LiveBackfills(js) ==
  {i \in DOMAIN js : /\ js[i].type = "mailbox_backfill"
                      /\ js[i].mailbox = Mbx
                      /\ js[i].dedupe_key = <<"mailbox_backfill", Mbx>>
                      /\ Live(js[i])}

\* worker w holds a history sync whose listing the provider can answer
\* with 404: the payload is whole, the mailbox is enabled, not paused and
\* has a history id
ListsHistory(w) ==
  /\ tx[w].pc = "claimed"
  /\ jobs[tx[w].job].type = "mailbox_history_sync"
  /\ jobs[tx[w].job].payload_ok
  /\ _load_mailbox_for_sync(View(w), now)
  /\ mailbox.gmail_history_id # NoId

\* C19: when the history listing returns 404 (HistoryExpired),
\* sync_mailbox_history records a last_sync_error that names the history,
\* leaves exactly one live mailbox_backfill job of the mailbox and does not
\* raise: the history job ends succeeded, not failed and not retried
C19_HistoryExpiredRecovers ==
  \A w \in Workers :
    ListsHistory(w) =>
      LET j == tx[w].job
          R == run_one_job(View(w), j, "history_expired", 0, tx[w].start, now)
      IN  ~R.db.blocked =>
            /\ R.outcome = "ok"
            /\ R.db.jobs[j].status = "succeeded"
            /\ R.db.jobs[j].attempts = jobs[j].attempts
            /\ R.db.mailbox.last_sync_error = "history_expired"
            /\ R.db.mailbox.gmail_history_id = mailbox.gmail_history_id
            /\ Cardinality(LiveBackfills(R.db.jobs)) = 1

\* a history sync met the expired history: it succeeded and the backfill of
\* the recovery is queued
C19_Witness ==
  /\ mailbox.last_sync_error = "history_expired"
  /\ \E i \in DOMAIN jobs : /\ jobs[i].type = "mailbox_history_sync"
                             /\ jobs[i].status = "succeeded"
  /\ \E i \in LiveBackfills(jobs) : jobs[i].status = "queued" /\ jobs[i].run_at >= 2
  /\ Cardinality(LiveBackfills(jobs)) = 1

\* worker w holds a backfill whose provider calls can fail: the payload is
\* whole and the mailbox is enabled and not paused
ListsMessages(w) ==
  /\ tx[w].pc = "claimed"
  /\ jobs[tx[w].job].type = "mailbox_backfill"
  /\ jobs[tx[w].job].payload_ok
  /\ _load_mailbox_for_sync(View(w), now)

HistoryJobs(js) == {i \in DOMAIN js : js[i].type = "mailbox_history_sync"}

\* what the failed run leaves of the sync in both cases of C20
NotAdvanced(w, R) ==
  /\ R.outcome = "retryable"
  /\ R.db.jobs[tx[w].job].attempts = jobs[tx[w].job].attempts + 1
  /\ R.db.mailbox.last_full_sync_at = mailbox.last_full_sync_at
  /\ R.db.mailbox.gmail_history_id = mailbox.gmail_history_id
  /\ HistoryJobs(R.db.jobs) = HistoryJobs(jobs)

\* C20 as stated: when the provider returns an API error during a
\* backfill, after any number of messages, the run commits last_sync_error
\* = 'Gmail backfill failed (<code>)' and the retry of the job; it advances
\* neither last_full_sync_at nor gmail_history_id and enqueues no
\* mailbox_history_sync job
C20_AsStated ==
  \A w \in Workers, k \in 0..MaxMsgs :
    ListsMessages(w) =>
      LET R == run_one_job(View(w), tx[w].job, "api_error", k, tx[w].start, now)
      IN  /\ NotAdvanced(w, R)
          /\ R.db.mailbox.last_sync_error = "backfill_failed"
          /\ R.db.jobs[tx[w].job].status = "queued"

\* C20 as amended: the same, except for the failure that is the fifth of
\* the job: there the circuit breaker leaves the job failed, pauses the
\* mailbox and puts the text of the exception in last_sync_error
C20_BackfillApiError ==
  \A w \in Workers, k \in 0..MaxMsgs :
    ListsMessages(w) =>
      LET R == run_one_job(View(w), tx[w].job, "api_error", k, tx[w].start, now)
      IN  /\ NotAdvanced(w, R)
          /\ IF Trips(jobs[tx[w].job])
               THEN /\ R.db.jobs[tx[w].job].status = "failed"
                    /\ R.db.mailbox.last_sync_error = "job_error"
                    /\ R.db.mailbox.paused_until > now
               ELSE /\ R.db.jobs[tx[w].job].status = "queued"
                    /\ R.db.jobs[tx[w].job].run_at > tx[w].start
                    /\ R.db.mailbox.last_sync_error = "backfill_failed"
                    /\ PauseFields(R.db.mailbox) = PauseFields(mailbox)

\* the backfill that had failed once met an API error again: it is queued
\* for its next retry and the mailbox has the error
C20_Witness ==
  /\ mailbox.last_sync_error = "backfill_failed"
  /\ mailbox.last_full_sync_at = NoId
  /\ \E i \in DOMAIN jobs : /\ jobs[i].type = "mailbox_backfill"
                             /\ jobs[i].status = "queued"
                             /\ jobs[i].attempts = 2
                             /\ jobs[i].last_error
                             /\ jobs[i].run_at > 2
  /\ HistoryJobs(jobs) = {}

\* --------------------------------------------- permanent payload errors
\* the committed run of w is a run of a pipeline handler that set the error
\* column of its occurrence (raw_fetch_error by occurrence_fetch_raw,
\* parse_error by occurrence_parse)
PayloadError(w) ==
  /\ Committed(w)
  /\ LET r == jobs[tx[w].job]
     IN  \/ /\ r.type = "occurrence_fetch_raw"
            /\ ~occs[r.occ].raw_fetch_error /\ occs'[r.occ].raw_fetch_error
         \/ /\ r.type = "occurrence_parse"
            /\ ~occs[r.occ].parse_error /\ occs'[r.occ].parse_error

\* C21: a permanent payload error in a pipeline handler (no raw_eml_base64
\* in the payload of occurrence_fetch_raw; the raw blob missing or
\* unreadable at occurrence_parse) leaves the job in status failed, not
\* queued again, and the occurrence in state failed with its error column
\* set
C21_PermanentPayloadError ==
  [][\A w \in Workers :
       PayloadError(w) =>
         /\ jobs'[tx[w].job].status = "failed"
         /\ occs'[jobs[tx[w].job].occ].state = "failed"]_vars

\* ------------------------------------------------------ stitch precedence
\* the committed run of w is the occurrence_stitch that stitched its
\* occurrence
StitchedBy(w) ==
  /\ Committed(w)
  /\ jobs[tx[w].job].type = "occurrence_stitch"
  /\ occs[jobs[tx[w].job].occ].state = "parsed"
  /\ occs'[jobs[tx[w].job].occ].state = "stitched"

\* the ticket of the known message with Message-ID ref, NoId without one
TicketOfRef(ref) ==
  LET known == {i \in DOMAIN messages :
                  messages[i].direction = "inbound" /\ messages[i].rfc = ref}
  IN  IF known = {} THEN NoId ELSE tmsgs[First(known)]

ResolvingRefs(m) ==
  {k \in DOMAIN References(m) : TicketOfRef(References(m)[k]) # NoId}

\* the ticket the headers of mail m name, by the four rules in their
\* order; NoId when none of them yields one
TicketByHeaders(m) ==
  IF XOssTicketId(m) # NoId THEN XOssTicketId(m)
  ELSE IF ReplyToCode(m) # NoId /\ ReplyToCode(m) \in TicketIds(tickets)
    THEN ReplyToCode(m)
  ELSE IF InReplyTo(m) # NoId /\ TicketOfRef(InReplyTo(m)) # NoId
    THEN TicketOfRef(InReplyTo(m))
  ELSE IF ResolvingRefs(m) # {}
    THEN TicketOfRef(References(m)[First(ResolvingRefs(m))])
  ELSE NoId

\* the stitch of mail m took the ticket target, or with no target a new
\* ticket with stitch_reason new_message and confidence low
StitchedTo(m, target) ==
  LET got == occs'[m].ticket_id
      msg == occs[m].message_id
  IN  /\ tmsgs'[msg] = got
      /\ IF target # NoId
           THEN /\ got = target
                /\ \A i \in DOMAIN tickets' :
                     i \notin DOMAIN tickets => tickets'[i].id = XOssTicketId(m)
           ELSE /\ got \notin TicketIds(tickets)
                /\ Len(tickets') = Len(tickets) + 1
                /\ tickets'[Len(tickets')] =
                     [id |-> got, status |-> "new", closed |-> FALSE,
                      stitch_reason |-> "new_message",
                      stitch_confidence |-> "low", assignee_user_id |-> NoId,
                      assignee_queue_id |-> NoId]

\* C22 as stated: the target ticket of every stitch is chosen by the
\* headers alone, X-OSS-Ticket-ID first, then the Reply-To token, then
\* In-Reply-To, then References, then a new ticket
C22_AsStated ==
  [][\A w \in Workers :
       StitchedBy(w) =>
         StitchedTo(jobs[tx[w].job].occ, TicketByHeaders(jobs[tx[w].job].occ))]_vars

\* C22: a message that already has a ticket_messages link keeps the ticket
\* of the link; for a message without one the target ticket is chosen by
\* strict precedence: X-OSS-Ticket-ID (get or create), else the Reply-To
\* token of an existing ticket, else the ticket of a known message named by
\* In-Reply-To, then by References, else a new ticket with stitch_reason
\* new_message and confidence low
C22_Precedence ==
  [][\A w \in Workers :
       StitchedBy(w) =>
         LET m == jobs[tx[w].job].occ
             link == tmsgs[occs[m].message_id]
         IN  IF link # NoId
               THEN occs'[m].ticket_id = link /\ tickets' = tickets /\ tmsgs' = tmsgs
               ELSE StitchedTo(m, TicketByHeaders(m))]_vars

\* a mail without X-OSS-Ticket-ID, with the Reply-To token of no ticket, an
\* unknown In-Reply-To and two References of which the second is known,
\* has been stitched to the ticket of the referenced mail, which is the
\* ticket of no other rule
C22_Witness ==
  \E m \in StitchMsgs :
       /\ m \in DOMAIN occs /\ occs[m].state \in {"stitched", "routed"}
       /\ OssMessageId(m) = NoId
       /\ XOssTicketId(m) = NoId /\ ReplyToCode(m) = UnknownId
       /\ InReplyTo(m) = UnknownId /\ Len(References(m)) = 2
       /\ occs[m].ticket_id = occs[StitchBase[4]].ticket_id
       /\ occs[m].ticket_id \notin {1, 2, occs[StitchBase[3]].ticket_id,
                                    occs[StitchBase[5]].ticket_id}

\* ------------------------------------------------------------ spam default
\* the auto_spam events emitted for occurrence m, and for the occurrences
\* of message msg
SpamEventsOf(ev, m) ==
  {i \in DOMAIN ev : ev[i].type = "auto_spam" /\ ev[i].occ = m}

SpamEventsOfMessage(ev, os, msg) ==
  {i \in DOMAIN ev : ev[i].type = "auto_spam" /\ os[ev[i].occ].message_id = msg}

NotAllowlisted(recipient) ==
  recipient = NoId \/ \A r \in routing.recipient_allowlist :
                        ~r.is_enabled \/ recipient \notin r.pattern

\* the committed run of w is a ticket_apply_routing that found its
\* occurrence stitched to a ticket and not yet routed
RoutingBy(w) ==
  /\ Committed(w)
  /\ jobs[tx[w].job].type = "ticket_apply_routing"
  /\ occs[jobs[tx[w].job].occ].exists
  /\ occs[jobs[tx[w].job].occ].state # "routed"
  /\ occs[jobs[tx[w].job].occ].ticket_id # NoId

TicketRow(ts, id) == ts[CHOOSE i \in DOMAIN ts : ts[i].id = id]

\* the routing of an occurrence whose recipient is not allowlisted leaves
\* it routed and its ticket spam and closed
SpamDefault(w) ==
  LET m == jobs[tx[w].job].occ
  IN  (RoutingBy(w) /\ NotAllowlisted(occs[m].original_recipient))
        => /\ occs'[m].state = "routed"
           /\ TicketRow(tickets', occs[m].ticket_id).status = "spam"
           /\ TicketRow(tickets', occs[m].ticket_id).closed

\* C23 as stated: the routing of a parsed message whose recipient is empty
\* or not allowlisted leaves its occurrence routed and its ticket spam and
\* closed, and in every state one auto_spam event at most exists for the
\* message, exactly one after the routing
C23_AsStated ==
  [][/\ \A w \in Workers :
          /\ SpamDefault(w)
          /\ (RoutingBy(w) /\ NotAllowlisted(occs[jobs[tx[w].job].occ].original_recipient))
               => Cardinality(SpamEventsOfMessage(
                                events', occs',
                                occs[jobs[tx[w].job].occ].message_id)) = 1
     /\ \A msg \in DOMAIN messages' :
          Cardinality(SpamEventsOfMessage(events', occs', msg)) <= 1]_vars

\* C23: the routing of an occurrence whose recipient is empty or not
\* allowlisted leaves the occurrence routed and its ticket spam and closed,
\* and one auto_spam event exists for the occurrence from then on, however
\* many routing jobs run for it; a message with several occurrences has one
\* event for each
C23_SpamDefault ==
  [][/\ \A w \in Workers :
          /\ SpamDefault(w)
          /\ (RoutingBy(w) /\ NotAllowlisted(occs[jobs[tx[w].job].occ].original_recipient))
               => Cardinality(SpamEventsOf(events', jobs[tx[w].job].occ)) = 1
     /\ \A m \in DOMAIN occs' : Cardinality(SpamEventsOf(events', m)) <= 1
     /\ \A m \in DOMAIN occs :
          SpamEventsOf(events, m) \subseteq SpamEventsOf(events', m)]_vars

\* two routing jobs have run for an occurrence with an address that only a
\* disabled pattern matches, and its ticket is spam with one auto_spam
\* event of the occurrence
C23_Witness ==
  \E m \in DOMAIN occs :
    /\ occs[m].state = "routed"
    /\ occs[m].original_recipient # NoId
    /\ NotAllowlisted(occs[m].original_recipient)
    /\ Cardinality({i \in DOMAIN jobs : /\ jobs[i].type = "ticket_apply_routing"
                                         /\ jobs[i].occ = m
                                         /\ jobs[i].status = "succeeded"}) = 2
    /\ Cardinality(SpamEventsOf(events, m)) = 1
    /\ TicketRow(tickets, occs[m].ticket_id).status = "spam"
    /\ TicketRow(tickets, occs[m].ticket_id).closed

\* ------------------------------------------------------ first matching rule
\* the committed run of w is the routing of an occurrence with an
\* allowlisted recipient
RulesBy(w) ==
  RoutingBy(w) /\ ~NotAllowlisted(occs[jobs[tx[w].job].occ].original_recipient)

\* the enabled rules that match the occurrence m and its ticket
MatchingRules(m) ==
  LET from == MsgFrom(View(ApiSession), occs[m].ticket_id)
  IN  {i \in DOMAIN routing.routing_rules :
         /\ routing.routing_rules[i].is_enabled
         /\ _rule_matches(routing.routing_rules[i], occs[m].original_recipient,
                          DomainOf(from.from_email), from.from_email,
                          from.direction)}

\* the first of them by priority, then id
FirstMatching(m) ==
  LET rs == routing.routing_rules
  IN  CHOOSE i \in MatchingRules(m) :
        \A k \in MatchingRules(m) \ {i} :
          \/ rs[i].priority < rs[k].priority
          \/ rs[i].priority = rs[k].priority /\ rs[i].id < rs[k].id

RoutingEvents(ev) == {i \in DOMAIN ev : ev[i].type = "routing_applied"}

\* C24: among the enabled rules that match, only the first by priority,
\* then id, is applied: the routing leaves the ticket with the actions of
\* that rule alone and adds one routing_applied event that names it; with
\* no matching rule the ticket stays as it is and no event is added
C24_FirstMatchingRule ==
  [][\A w \in Workers :
       RulesBy(w) =>
         LET m == jobs[tx[w].job].occ
             t == occs[m].ticket_id
         IN  IF MatchingRules(m) = {}
               THEN tickets' = tickets /\ events' = events
               ELSE LET r == routing.routing_rules[FirstMatching(m)]
                    IN  /\ tickets' = _apply_rule_actions(View(ApiSession), t, r,
                                                          m).tickets
                        /\ events' = Append(events, [ticket |-> t,
                                                     type |-> "routing_applied",
                                                     occ |-> m, rule |-> r.id])]_vars

\* two enabled rules of priorities 10 and 20 match, the one of priority 20
\* has the lower id, and the ticket carries the assignee and status of the
\* rule of priority 10 with one routing_applied event, which names it
C24_Witness ==
  \E i, k \in DOMAIN routing.routing_rules :
    LET rs == routing.routing_rules
    IN  /\ rs[i].is_enabled /\ rs[k].is_enabled
        /\ rs[i].priority = 10 /\ rs[k].priority = 20 /\ rs[k].id < rs[i].id
        /\ Cardinality(RoutingEvents(events)) = 1
        /\ \E e \in RoutingEvents(events) :
             /\ events[e].rule = rs[i].id
             /\ \A j \in DOMAIN jobs :
                  (jobs[j].type = "ticket_apply_routing" /\ jobs[j].occ = events[e].occ)
                    => jobs[j].status = "succeeded"
             /\ TicketRow(tickets, events[e].ticket).assignee_user_id
                  = rs[i].action_assign_user_id
             /\ TicketRow(tickets, events[e].ticket).assignee_queue_id = NoId
             /\ TicketRow(tickets, events[e].ticket).status = rs[i].action_set_status
             /\ rs[k].action_assign_queue_id # NoId

\* ------------------------------------------------------ auto close and drop
\* the only action of rule r is action_drop
DropOnly(r) ==
  /\ r.action_drop
  /\ ~r.action_auto_close
  /\ r.action_set_status = "none"
  /\ r.action_assign_user_id = NoId
  /\ r.action_assign_queue_id = NoId

\* C25: when the matching rule is applied, action_auto_close leaves the
\* ticket closed with closed_at set whatever action_set_status says, and a
\* rule whose only action is action_drop adds a routing_applied event and
\* leaves status, closed_at and both assignees of the ticket as they were
C25_AutoCloseAndDrop ==
  [][\A w \in Workers :
       (RulesBy(w) /\ MatchingRules(jobs[tx[w].job].occ) # {}) =>
         LET m == jobs[tx[w].job].occ
             t == occs[m].ticket_id
             r == routing.routing_rules[FirstMatching(m)]
         IN  /\ r.action_auto_close =>
                  /\ TicketRow(tickets', t).status = "closed"
                  /\ TicketRow(tickets', t).closed
             /\ DropOnly(r) =>
                  /\ TicketRow(tickets', t).status = TicketRow(tickets, t).status
                  /\ TicketRow(tickets', t).closed = TicketRow(tickets, t).closed
                  /\ TicketRow(tickets', t).assignee_user_id
                       = TicketRow(tickets, t).assignee_user_id
                  /\ TicketRow(tickets', t).assignee_queue_id
                       = TicketRow(tickets, t).assignee_queue_id
                  /\ Len(events') = Len(events) + 1
                  /\ events'[Len(events')].type = "routing_applied"
                  /\ events'[Len(events')].rule = r.id
                  /\ events'[Len(events')].ticket = t]_vars

\* the rule named by routing_applied event e
RuleOfEvent(e) ==
  routing.routing_rules[CHOOSE i \in DOMAIN routing.routing_rules :
                          routing.routing_rules[i].id = events[e].rule]

\* one ticket was closed by a rule with action_auto_close whose
\* action_set_status names another status, and a ticket on which a rule with
\* action_drop alone was recorded is still new and unassigned
C25_Witness ==
  /\ \E e \in RoutingEvents(events) :
       /\ RuleOfEvent(e).action_auto_close
       /\ RuleOfEvent(e).action_set_status \notin {"none", "closed"}
       /\ TicketRow(tickets, events[e].ticket).status = "closed"
       /\ TicketRow(tickets, events[e].ticket).closed
  /\ \E e \in RoutingEvents(events) :
       /\ DropOnly(RuleOfEvent(e))
       /\ TicketRow(tickets, events[e].ticket).status = "new"
       /\ ~TicketRow(tickets, events[e].ticket).closed
       /\ TicketRow(tickets, events[e].ticket).assignee_user_id = NoId
       /\ TicketRow(tickets, events[e].ticket).assignee_queue_id = NoId
       /\ \A j \in DOMAIN jobs :
            (jobs[j].type = "ticket_apply_routing" /\ jobs[j].occ = events[e].occ)
              => jobs[j].status = "succeeded"

\* ------------------------------------------------------------ one assignee
\* C26: in every reachable state no ticket has both a user and a queue as
\* assignee
C26_OneAssignee ==
  \A i \in DOMAIN tickets :
    tickets[i].assignee_user_id = NoId \/ tickets[i].assignee_queue_id = NoId

\* a ticket that a rule gave to a user was then given to a queue by an
\* update and has no user
C26_Witness ==
  \E i \in DOMAIN tickets :
    /\ tickets[i].assignee_queue_id # NoId
    /\ tickets[i].assignee_user_id = NoId
    /\ \E e \in RoutingEvents(events), u \in DOMAIN events :
         /\ events[e].ticket = tickets[i].id
         /\ RuleOfEvent(e).action_assign_user_id # NoId
         /\ events[u].ticket = tickets[i].id
         /\ events[u].type = "ticket_updated"
         /\ u > e
         /\ \A r \in RoutingEvents(events) : r < u

\* ------------------------------------------------------ recipient resolver
\* the sources of the recipient of mail m in their order of precedence
RecipientSources(m) ==
  LET h == RecipientHeaders(m)
  IN  << [candidates |-> h.x_gm_original_to, source |-> "workspace_header",
          confidence |-> "high"],
         [candidates |-> h.delivered_to, source |-> "delivered_to",
          confidence |-> "medium"],
         [candidates |-> h.x_original_to, source |-> "x_original_to",
          confidence |-> "medium"],
         [candidates |-> h.to_emails, source |-> "to_cc_scan", confidence |-> "low"],
         [candidates |-> h.cc_emails, source |-> "to_cc_scan", confidence |-> "low"] >>

\* the occurrences that occurrence_parse has written
ParsedOccs ==
  {m \in DOMAIN occs :
     occs[m].exists /\ occs[m].state \in {"parsed", "stitched", "routed"}}

\* C27: the recipient of a parsed occurrence is the first candidate of the
\* first non-empty source in the order X-Gm-Original-To (workspace_header,
\* high), Delivered-To (medium), X-Original-To (medium), To (low), Cc (low),
\* and with no source it is none with source unknown; the evidence lists
\* the candidates of all five sources
C27_RecipientPrecedence ==
  \A m \in ParsedOccs :
    LET s == RecipientSources(m)
        live == {i \in DOMAIN s : s[i].candidates # <<>>}
        ev == occs[m].original_recipient_evidence
    IN  /\ IF live = {}
             THEN /\ occs[m].original_recipient = NoId
                  /\ occs[m].original_recipient_source = "unknown"
             ELSE /\ occs[m].original_recipient = s[First(live)].candidates[1]
                  /\ occs[m].original_recipient_source = s[First(live)].source
                  /\ occs[m].original_recipient_confidence = s[First(live)].confidence
        /\ ev.x_gm_original_to_candidates = s[1].candidates
        /\ ev.delivered_to_candidates = s[2].candidates
        /\ ev.x_original_to_candidates = s[3].candidates
        /\ ev.to_candidates = s[4].candidates
        /\ ev.cc_candidates = s[5].candidates

\* a worker has parsed a mail with Delivered-To, To and Cc and without
\* X-Gm-Original-To: the recipient is the first Delivered-To address with
\* confidence medium, and the evidence keeps the To and Cc addresses
C27_Witness ==
  \E m \in DOMAIN occs :
    /\ occs[m].state = "parsed"
    /\ RecipientHeaders(m).x_gm_original_to = <<>>
    /\ Len(RecipientHeaders(m).delivered_to) = 2
    /\ RecipientHeaders(m).to_emails # <<>>
    /\ RecipientHeaders(m).cc_emails # <<>>
    /\ occs[m].original_recipient = RecipientHeaders(m).delivered_to[1]
    /\ occs[m].original_recipient_source = "delivered_to"
    /\ occs[m].original_recipient_confidence = "medium"
    /\ occs[m].original_recipient_evidence.to_candidates = RecipientHeaders(m).to_emails
    /\ occs[m].original_recipient_evidence.selected_from = "Delivered-To"

\* ------------------------------------------------------------ outbound sent
\* the outbound_sent events of message msg on its ticket
OutboundSent(msg) ==
  {e \in DOMAIN events : /\ events[e].type = "outbound_sent"
                         /\ events[e].ticket = tmsgs[msg]
                         /\ events[e].occ = NoId - msg}

\* C28: once a worker has run the outbound_send job of a reply, whatever the
\* number of its runs, the ticket has exactly one outbound_sent event for
\* that message
C28_OutboundSentOnce ==
  \A i \in DOMAIN jobs :
    (jobs[i].type = "outbound_send" /\ jobs[i].attempts >= 1
       /\ jobs[i].status # "running")
      => Cardinality(OutboundSent(jobs[i].dedupe_key[2])) = 1

\* ---------------------------------------------------------- content version
\* the committed run of w has parsed its occurrence
ParsedBy(w) ==
  /\ Committed(w)
  /\ jobs[tx[w].job].type = "occurrence_parse"
  /\ occs[jobs[tx[w].job].occ].state # "parsed"
  /\ occs'[jobs[tx[w].job].occ].state = "parsed"

\* the content versions of message msg before the step, none for a message
\* the step has created
VersionsBefore(msg) == IF msg \in DOMAIN contents THEN contents[msg] ELSE {}

\* C29: each parse of an occurrence writes one message_contents row for its
\* canonical message, with the greatest version the message had plus 1, and
\* with version 1 when it had none
C29_NextContentVersion ==
  [][\A w \in Workers :
       ParsedBy(w) =>
         LET msg == occs'[jobs[tx[w].job].occ].message_id
         IN  contents'[msg] = VersionsBefore(msg)
                                \cup {MaxVersion(VersionsBefore(msg)) + 1}]_vars

\* ------------------------------------------------------- pipeline liveness
\* the type of the job that advances an occurrence in state st
StageJob(st) ==
  CASE st = "discovered" -> "occurrence_fetch_raw"
    [] st = "raw_fetched" -> "occurrence_parse"
    [] st = "parsed"      -> "occurrence_stitch"
    [] st = "stitched"    -> "ticket_apply_routing"
    [] OTHER              -> "none"

\* every occurrence short of routed has a queued or running job of its stage
NoOrphan ==
  \A m \in DOMAIN occs :
    (occs[m].exists /\ occs[m].state # "routed")
      => \E i \in DOMAIN jobs : /\ jobs[i].type = StageJob(occs[m].state)
                                /\ jobs[i].occ = m
                                /\ Live(jobs[i])

\* occurrence m is routed and has its raw_eml blob, one canonical message,
\* one ticket and the link between the two
RoutedWhole(m) ==
  /\ occs[m].state = "routed"
  /\ occs[m].raw_blob_id = RawSha(m) /\ RawSha(m) \in blobs
  /\ Cardinality({i \in DOMAIN messages : messages[i].sig = Signature(m)}) = 1
  /\ occs[m].message_id \in DOMAIN messages
  /\ messages[occs[m].message_id].sig = Signature(m)
  /\ Cardinality({i \in DOMAIN tickets : tickets[i].id = occs[m].ticket_id}) = 1
  /\ tmsgs[occs[m].message_id] = occs[m].ticket_id

RowsExcept(j) == [i \in DOMAIN jobs \ {j} |-> jobs[i]]

ReplayedNow(j) ==
  /\ jobs'[j] = [jobs[j] EXCEPT !.status = "queued", !.run_at = now,
                                !.locked_by = "none", !.last_error = FALSE]
  /\ RowsExcept(j)' = RowsExcept(j)
  /\ UNCHANGED <<mailbox, occs, blobs, messages, contents, tickets, tmsgs,
                 events, routing>>
  /\ Claimable(j)'

\* C32: a replay request changes the database only for a job that is failed
\* and belongs to the caller's tenant, and then the job is queued with
\* run_at = now, its lock and last_error cleared, every other column and row
\* as before, and a worker can claim it; a request for a job in another
\* status or of another tenant leaves the database as it was
C32_ReplayOnlyFailedOwn ==
  [][\A org \in Orgs, j \in DOMAIN jobs :
       dlq_job_replay(org, j) =>
         IF jobs[j].status = "failed" /\ jobs[j].org = org
           THEN ReplayedNow(j) \/ UNCHANGED db
           ELSE UNCHANGED db]_vars

\* a replayed job: queued again, its error cleared, its attempts kept
C32_Witness ==
  /\ apiCalls > 0
  /\ \E j \in DOMAIN jobs :
       /\ jobs[j].status = "queued" /\ jobs[j].run_at = now
       /\ jobs[j].attempts > 0 /\ ~jobs[j].last_error
       /\ Claimable(j)

\* ------------------------------------------------------------ OAuth state
\* C33: the callback gets past the checks of a state value at most once:
\* the code of at most one callback is exchanged for it, and after that
\* callback, whether its exchange succeeded or failed, the state is
\* rejected as already used
C33_ConsumedOnce == oauth.exchanges <= 1

\* ---------------------------------------------------------- manual resume
LiveSync(js, type) ==
  {i \in DOMAIN js : js[i].type = type /\ js[i].mailbox = Mbx
                       /\ js[i].status \in {"queued", "running"}}

TrippedJobs ==
  {i \in DOMAIN jobs : jobs[i].type \in SyncJobTypes /\ jobs[i].status = "failed"
                         /\ jobs[i].attempts >= CircuitBreakerAttempts}

LiveSyncJobs(js) ==
  LiveSync(js, "mailbox_backfill") \cup LiveSync(js, "mailbox_history_sync")

SyncMarks(mb) == <<mb.last_full_sync_at, mb.last_incremental_sync_at>>

\* C34 as stated: once a sync job has tripped the circuit breaker, the
\* workers create no job of its type and do not sync the mailbox as long as
\* no request has come from outside
C34_AsStated ==
  [][(TrippedJobs # {} /\ apiCalls = 0 /\ apiCalls' = 0) =>
       /\ \A i \in TrippedJobs :
            LiveSync(jobs, jobs[i].type) = {} => LiveSync(jobs', jobs[i].type) = {}
       /\ SyncMarks(mailbox') = SyncMarks(mailbox)]_vars

\* C34: the job that trips the circuit breaker leaves no live sync job of
\* its type; and while the mailbox has no live sync job of either type, no
\* step of a worker and no passing of time, the end of the pause included,
\* creates one or syncs the mailbox: from there the syncing starts again
\* only through a request from outside.  (A poll that was queued when a
\* backfill tripped the circuit breaker goes on by itself.)
C34_NoRestartByItself ==
  [][/\ (mailbox'.pause_reason = "circuit"
            /\ mailbox'.paused_until # mailbox.paused_until) =>
          \A i \in DOMAIN jobs :
            jobs'[i].attempts # jobs[i].attempts =>
              LiveSync(jobs', jobs[i].type) = {}
     /\ (TrippedJobs # {} /\ LiveSyncJobs(jobs) = {} /\ apiCalls' = apiCalls) =>
          /\ LiveSyncJobs(jobs') = {}
          /\ SyncMarks(mailbox') = SyncMarks(mailbox)]_vars

\* a history sync has met its fifth failure in this run: it is failed, the
\* mailbox is paused and has no live sync job
C34_Witness ==
  /\ faults > 0
  /\ \E i \in TrippedJobs : jobs[i].type = "mailbox_history_sync"
  /\ mailbox.pause_reason = "circuit" /\ mailbox.paused_until > now + PauseLeft
  /\ LiveSyncJobs(jobs) = {}
  /\ \A w \in Workers : tx[w].pc = "idle"

\* ------------------------------------------------------ the poll in a pause
Finished(w) == tx[w].pc = "claimed" /\ tx'[w].pc = "idle"

Closed(mb, t) == ~_load_mailbox_for_sync([mailbox |-> mb], t)

PollsDone ==
  {i \in DOMAIN jobs : jobs[i].type = "mailbox_history_sync"
                         /\ jobs[i].status = "succeeded"}

SyncedAt(t) == t # NoId /\ t >= mailbox.paused_until

SyncedAfterPause ==
  SyncedAt(mailbox.last_incremental_sync_at) \/ SyncedAt(mailbox.last_full_sync_at)

C36_RecoveryConverges ==
  [][\A w \in Workers :
       (/\ Finished(w)
        /\ jobs[tx[w].job].type = "mailbox_history_sync"
        /\ mailbox.last_full_sync_at # NoId) =>
         /\ mailbox'.last_sync_error # "history_expired"
         /\ LiveSync(jobs', "mailbox_backfill") \subseteq LiveSync(jobs, "mailbox_backfill")]_vars

\* ------------------------------------------------- occurrence state and ids
JobsOf(type) == {i \in DOMAIN jobs : jobs[i].type = type}

\* C37: an occurrence in state raw_fetched, parsed, stitched or routed has
\* a raw_blob_id, one in state parsed, stitched or routed has a message_id,
\* and one in state stitched or routed has a ticket_id
C37_StateImpliesIds ==
  \A m \in DOMAIN occs :
    occs[m].exists =>
      /\ occs[m].state \in {"raw_fetched", "parsed", "stitched", "routed"}
           => occs[m].raw_blob_id # NoId
      /\ occs[m].state \in {"parsed", "stitched", "routed"}
           => occs[m].message_id # NoId
      /\ occs[m].state \in {"stitched", "routed"} => occs[m].ticket_id # NoId

\* an occurrence that the workers have routed while the jobs of its earlier
\* stages were delivered again
C37_Witness ==
  /\ \E m \in DOMAIN occs : occs[m].exists /\ occs[m].state = "routed"
  /\ Cardinality(JobsOf("ticket_apply_routing")) = 1
  /\ Cardinality(JobsOf("occurrence_stitch")) = 2
  /\ \A i \in JobsOf("occurrence_stitch") \cup JobsOf("occurrence_parse") :
       jobs[i].status = "succeeded"

\* ------------------------------------------------- failure after a replay
\* a row that a failure takes to failed at once: it has used up its
\* attempts, or it is a sync job at the threshold of the circuit breaker
Exhausted(row) ==
  \/ row.attempts + 1 >= row.max_attempts
  \/ /\ row.type \in SyncJobTypes /\ row.mailbox # NoId
     /\ row.attempts + 1 >= CircuitBreakerAttempts

\* C38: a replay leaves the attempts of the job as they were; and when a
\* job that had failed at max_attempts, or a sync job that had tripped the
\* circuit breaker, fails in a run after its replay, the attempts go on
\* from there and the job is failed again at once, and the failure of the
\* sync job (its payload in order, so that the failure is retryable) pauses
\* the mailbox anew
C38_ReplayKeepsAttempts ==
  [][/\ \A org \in Orgs, j \in DOMAIN jobs :
          dlq_job_replay(org, j) => jobs'[j].attempts = jobs[j].attempts
     /\ \A w \in Workers :
          (/\ Finished(w)
           /\ jobs'[tx[w].job].attempts = jobs[tx[w].job].attempts + 1
           /\ Exhausted(jobs[tx[w].job])) =>
            /\ jobs'[tx[w].job].status = "failed"
            /\ (jobs[tx[w].job].type \in SyncJobTypes /\ jobs[tx[w].job].payload_ok) =>
                 /\ mailbox'.paused_until = now + MailboxSyncPauseHalfSeconds
                 /\ mailbox'.pause_reason = "circuit"]_vars

\* the history sync that had tripped the circuit breaker was replayed and
\* has failed once more: its attempts are one above the threshold and the
\* mailbox is paused from that failure on
C38_Witness ==
  /\ apiCalls > 0
  /\ \E j \in DOMAIN jobs :
       /\ jobs[j].type = "mailbox_history_sync" /\ jobs[j].status = "failed"
       /\ jobs[j].attempts = CircuitBreakerAttempts + 1
  /\ mailbox.pause_reason = "circuit"
  /\ mailbox.paused_until >= 2 + PauseLeft + MailboxSyncPauseHalfSeconds

\* --------------------------------------------------- the sender of a mail
\* from_email and direction of the canonical message of the occurrence m
OwnFrom(m) ==
  LET msg == messages[occs[m].message_id]
  IN  [from_email |-> IF msg.direction = "outbound" THEN AgentEmail
                      ELSE FromEmail(msg.rfc),
       direction |-> msg.direction]

\* the enabled rules that match the occurrence m by its own message
OwnMatchingRules(m) ==
  {i \in DOMAIN routing.routing_rules :
     /\ routing.routing_rules[i].is_enabled
     /\ _rule_matches(routing.routing_rules[i], occs[m].original_recipient,
                      DomainOf(OwnFrom(m).from_email), OwnFrom(m).from_email,
                      OwnFrom(m).direction)}

OwnFirstMatching(m) ==
  LET rs == routing.routing_rules
  IN  CHOOSE i \in OwnMatchingRules(m) :
        \A k \in OwnMatchingRules(m) \ {i} :
          \/ rs[i].priority < rs[k].priority
          \/ rs[i].priority = rs[k].priority /\ rs[i].id < rs[k].id

\* C39: the routing of an occurrence matches the rules against the sender
\* address, the sender domain and the direction of the occurrence's own
\* canonical message, whatever other messages its ticket holds: the
\* routing_applied event it adds names the first rule that matches the own
\* message, and no event is added when no rule matches the own message
C39_OwnMessageSender ==
  [][\A w \in Workers :
       RulesBy(w) =>
         LET m == jobs[tx[w].job].occ
         IN  IF OwnMatchingRules(m) = {}
               THEN events' = events
               ELSE events' = Append(events,
                                     [ticket |-> occs[m].ticket_id,
                                      type |-> "routing_applied", occ |-> m,
                                      rule |-> routing.routing_rules[
                                                 OwnFirstMatching(m)].id])]_vars

====
